---- MODULE Spec2Model ----
(***************************************************************************)
(* Model of the AST scanner src/scan_project_ASTGemini.py: the grammar     *)
(* registry (_load_tree_sitter_languages), the directory walk and per-file *)
(* dispatch (scan), the per-definition match loop and the chunk builder    *)
(* (parse_file_with_tree_sitter).                                          *)
(*                                                                         *)
(* Text is modelled as it is in the program: file content is a sequence of *)
(* byte values, a Python str is a sequence of code points, and decoding    *)
(* uses the 'ignore' error handler.  File and directory names are          *)
(* sequences of code points as well, so that suffix, prefix and lower-case *)
(* tests are computed and not assumed.                                     *)
(*                                                                         *)
(* The tree-sitter library is the environment.  Its results (the nodes of  *)
(* a parsed tree, the matches of a query) are inputs; the shape of a match *)
(* is the one the match loop at lines 259-302 is written for: a list of    *)
(* capture dicts {capture_name: Node}.                                     *)
(*                                                                         *)
(* The other scanners of the repository follow, each with its own          *)
(* variables and its own specification: the text scanner                   *)
(* src/scan_project_gemini2.py (its file loop and safe_read_file), the     *)
(* JSON structure scanner src/scan_project.py (its walk and                *)
(* _add_to_nested_dict) and the filtered scanner                           *)
(* src/scan_project_claudeToJsonWithDesiredContent.py (its walk and the     *)
(* statistics it returns).  While one scanner runs the variables of the    *)
(* others stay at their idle values.                                       *)
(***************************************************************************)
EXTENDS Integers, Sequences, FiniteSets, TLC

VARIABLES
    \* ---- the scan (scan, lines 313-363) ----
    env,            \* the unchanged input of a scan: grammar artifact, faults, match lists
    pc,             \* position in scan(): "load", "walk", "write", "done" ("crashed": an exception left scan)
    run,            \* which run of the script this is, 1..MaxRuns
    LANGUAGES,      \* the module-level dict LANGUAGES (line 107), ext -> language name
    walk_stack,     \* directories os.walk still has to yield, next one first
    cur_dir,        \* dirpath of the directory whose files are being handled
    pending_files,  \* sorted(filenames) not yet handled in cur_dir
    all_chunks,     \* the local all_chunks of scan (line 316)
    chunk_trace,    \* per element of all_chunks: the locals start_byte, end_byte and the match it came from
    log,            \* what was printed to stderr, in order
    compiled,       \* every call of ts_lang_obj.query (line 205), in order
    visited,        \* the relative paths the loop of line 327 has handled, in order
    output,         \* the document handed to json.dump, or NoOutput
    prev_chunks,    \* code_chunks of the previous run of the script
    \* ---- the chunk builder applied to one match (lines 259-302) ----
    b_content,      \* content_bytes
    b_match,        \* one element of query.matches(root_node): a list of capture dicts
    b_out,          \* what the loop body appended for b_match: <<>> or one entry
    \* ---- the text scanner's file loop (scan_project_gemini2.py, lines 283-336) ----
    t_pc,           \* "walk": os.walk is about to yield the directory; "files": in the loop of line 304; "done"
    t_files,        \* files, as os.walk lists them for the directory
    t_pending,      \* the names of the sorted files the loop has not handled yet
    t_structure,    \* what the loop appended to project_files_structure, in order
    \* ---- safe_read_file applied to one file (scan_project_gemini2.py, lines 74-143) ----
    r_call,         \* the file and the limits of the call
    r_out,          \* what the call returned, or NotRead
    \* ---- the JSON structure scanner (scan_project.py, lines 110-122 and 298-329) ----
    j_pc,           \* "walk": in the loop of line 299; "done": the walk is over
    j_args,         \* max_scan_depth and max_file_size_kb
    j_stack,        \* the directories os.walk still has to yield, next one first
    j_yielded,      \* the directories os.walk has yielded
    j_dir,          \* the directory of the current iteration of line 299
    j_filenames,    \* the filenames the loop of line 314 still has to visit, in order
    j_structure,    \* project_data["structure"], a nested dict
    j_added,        \* every call of _add_to_nested_dict so far: path_parts and content, in order
    \* ---- the filtered scanner (scan_project_claudeToJsonWithDesiredContent.py, lines 199-401) ----
    s_pc,           \* "walk": in the loop of line 258; "returned", "raised": scan_project is over
    s_config,       \* scan_config: the filters after lines 223-233
    s_stack,        \* the directories os.walk still has to yield, next one first
    s_dir,          \* the directory of the current iteration of line 258
    s_filenames,    \* the sorted filenames the loop of line 281 still has to visit, then <<>>
    s_counters,     \* total_files, included_files, total_content_size, total_tokens, ...
    s_doc,          \* all_directories, all_files, dir_files and files_by_directory
    s_returned      \* the statistics scan_project returned, or NotReturned

scan_vars == <<env, pc, run, LANGUAGES, walk_stack, cur_dir, pending_files,
               all_chunks, chunk_trace, log, compiled, visited, output, prev_chunks>>
build_vars == <<b_content, b_match, b_out>>
text_vars == <<t_pc, t_files, t_pending, t_structure>>
read_vars == <<r_call, r_out>>
json_vars == <<j_pc, j_args, j_stack, j_yielded, j_dir, j_filenames, j_structure, j_added>>
stats_vars == <<s_pc, s_config, s_stack, s_dir, s_filenames, s_counters, s_doc, s_returned>>
other_vars == <<text_vars, read_vars, json_vars, stats_vars>>
vars == <<scan_vars, build_vars, other_vars>>

-----------------------------------------------------------------------------
(* Bounds of the model *)

MaxLen == 2        \* length of content_bytes in the chunk-builder specification
MaxCaps == 2       \* capture dicts in one match
MaxMatches == 2    \* matches of the free match list of the scan
MaxRuns == 2       \* runs of the script on the unchanged input

-----------------------------------------------------------------------------
(* Sequences and text *)

Min2(a, b) == IF a <= b THEN a ELSE b

\* Python slice s[lo:hi] of a sequence, 0-indexed, clamped to the sequence
Slice(s, lo, hi) == SubSeq(s, Min2(lo, Len(s)) + 1, Min2(hi, Len(s)))

\* str.endswith
EndsWith(s, suf) ==
    /\ Len(suf) <= Len(s)
    /\ SubSeq(s, Len(s) - Len(suf) + 1, Len(s)) = suf

\* str.startswith
StartsWith(s, pre) ==
    /\ Len(pre) <= Len(s)
    /\ SubSeq(s, 1, Len(pre)) = pre

\* str.lower on the ASCII letters
LowerChar(c) == IF c >= 65 /\ c <= 90 THEN c + 32 ELSE c
Lower(s) == [i \in 1..Len(s) |-> LowerChar(s[i])]

\* Python's order on str: by code point, a proper prefix first
RECURSIVE StrLess(_, _)
StrLess(a, b) ==
    IF a = <<>> THEN b # <<>>
    ELSE IF b = <<>> THEN FALSE
    ELSE IF a[1] # b[1] THEN a[1] < b[1]
    ELSE StrLess(Tail(a), Tail(b))

\* sorted(names)
RECURSIVE Sorted(_)
Sorted(S) ==
    IF S = {} THEN <<>>
    ELSE LET m == CHOOSE x \in S : \A y \in S \ {x} : StrLess(x, y)
         IN <<m>> \o Sorted(S \ {m})

\* the orders in which a directory listing can give the names of S
Orders(S) == { q \in [1..Cardinality(S) -> S] : \A x \in S : \E i \in DOMAIN q : q[i] = x }

\* the concatenation of a sequence of sequences
RECURSIVE Concat(_)
Concat(ss) == IF ss = <<>> THEN <<>> ELSE Head(ss) \o Concat(Tail(ss))

\* F applied to a value that is computed once: a local that is assigned and then read
Once(value, F(_)) == CHOOSE y \in { F(x) : x \in {value} } : TRUE

RECURSIVE SeqsUpTo(_, _)
SeqsUpTo(n, S) ==
    IF n = 0 THEN {<<>>}
    ELSE LET shorter == SeqsUpTo(n - 1, S)
         IN shorter \cup { Append(q, x) : q \in { r \in shorter : Len(r) = n - 1 }, x \in S }

-----------------------------------------------------------------------------
(* Bytes and decoding *)

IsAscii(b) == b < 128
IsLead2(b) == b >= 194 /\ b <= 223      \* 0xC2..0xDF: first byte of a two-byte form
IsCont(b) == b >= 128 /\ b <= 191       \* 0x80..0xBF: continuation byte

\* bytes.decode('utf-8', 'ignore') on the bytes of the model: one-byte and
\* two-byte forms decode to their code point, any other byte is dropped.
\* (Three- and four-byte forms are outside the byte values the model draws.)
RECURSIVE Decode(_)
Decode(bs) ==
    IF bs = <<>> THEN <<>>
    ELSE IF IsAscii(bs[1]) THEN <<bs[1]>> \o Decode(Tail(bs))
    ELSE IF IsLead2(bs[1]) /\ Len(bs) >= 2 /\ IsCont(bs[2])
         THEN <<(bs[1] - 192) * 64 + (bs[2] - 128)>> \o Decode(Tail(Tail(bs)))
    ELSE Decode(Tail(bs))

\* get_node_text
get_node_text(node, content_bytes) ==
    Decode(Slice(content_bytes, node.start_byte, node.end_byte))

-----------------------------------------------------------------------------
(* Nodes and matches, as tree-sitter gives them *)

NEWLINE == 10

\* the row of a byte offset: the number of newlines before it
RECURSIVE RowAt(_, _)
RowAt(content, off) ==
    IF off = 0 THEN 0
    ELSE RowAt(content, off - 1) + (IF content[off] = NEWLINE THEN 1 ELSE 0)

\* a node of the tree parsed from content, covering bytes [s, e)
Node(content, s, e) ==
    [start_byte |-> s, end_byte |-> e,
     start_row |-> RowAt(content, s), end_row |-> RowAt(content, e)]

\* a capture bound to a list of nodes and not to one node (line 223)
NodeList(nodes) == [items |-> nodes]

\* the value has the attributes of a node
IsNode(v) == "start_byte" \in DOMAIN v

\* a capture dict is a sequence of entries, in the dict's iteration order
Cap(label, node) == [label |-> label, node |-> node]

\* name_capture_key in cap_dict
HasKey(cap_dict, key) == \E i \in DOMAIN cap_dict : cap_dict[i].label = key

\* cap_dict[name_capture_key]
Lookup(cap_dict, key) ==
    cap_dict[CHOOSE i \in DOMAIN cap_dict : cap_dict[i].label = key].node

\* cap_dict.values()
Values(cap_dict) == [i \in DOMAIN cap_dict |-> cap_dict[i].node]

-----------------------------------------------------------------------------
(* The chunk builder: the body of the match loop, lines 259-302 *)

Unnamed == <<85, 110, 110, 97, 109, 101, 100>>     \* "Unnamed"

\* line 274: every node of every capture dict of the match, in order
RECURSIVE MatchNodes(_)
MatchNodes(match) ==
    IF match = <<>> THEN <<>>
    ELSE Values(Head(match)) \o MatchNodes(Tail(match))

\* line 278: the key of min() reads start_byte of every value of the match and
\* raises AttributeError on one that is not a node
Raises(match) ==
    \E i \in DOMAIN MatchNodes(match) : ~IsNode(MatchNodes(match)[i])

\* min(nodes, key=lambda n: n.start_byte): the first node with the least start byte
MinNode(nodes) ==
    nodes[CHOOSE i \in DOMAIN nodes :
            \A j \in DOMAIN nodes :
                /\ nodes[i].start_byte <= nodes[j].start_byte
                /\ (j < i => nodes[j].start_byte > nodes[i].start_byte)]

\* max(nodes, key=lambda n: n.end_byte): the first node with the greatest end byte
MaxNode(nodes) ==
    nodes[CHOOSE i \in DOMAIN nodes :
            \A j \in DOMAIN nodes :
                /\ nodes[i].end_byte >= nodes[j].end_byte
                /\ (j < i => nodes[j].end_byte < nodes[i].end_byte)]

\* the span with both ends read from the node that starts first
CoveringSpanOfMinNode(nodes) ==
    [start_byte |-> MinNode(nodes).start_byte, end_byte |-> MinNode(nodes).end_byte]

\* lines 278-282: start_byte and end_byte
CoveringSpan(nodes) ==
    [start_byte |-> MinNode(nodes).start_byte, end_byte |-> MaxNode(nodes).end_byte]

\* the lines with the rows left 0-indexed
ChunkLinesZeroIndexed(nodes) ==
    [start_line |-> MinNode(nodes).start_row, end_line |-> MaxNode(nodes).end_row]

\* lines 285-286: start_line and end_line, 1-indexed
ChunkLines(nodes) ==
    [start_line |-> MinNode(nodes).start_row + 1, end_line |-> MaxNode(nodes).end_row + 1]

\* the slice taken one byte short
ChunkContentShort(content_bytes, start_byte, end_byte) ==
    Decode(Slice(content_bytes, start_byte, end_byte - 1))

\* line 284: code_content_chunk
ChunkContent(content_bytes, start_byte, end_byte) ==
    Decode(Slice(content_bytes, start_byte, end_byte))

\* the name taken from the last dict that has the name capture (no break)
RECURSIVE EntityNameLast(_, _, _)
EntityNameLast(match, name_capture_key, content_bytes) ==
    IF match = <<>> THEN Unnamed
    ELSE IF HasKey(match[Len(match)], name_capture_key)
         THEN get_node_text(Lookup(match[Len(match)], name_capture_key), content_bytes)
    ELSE EntityNameLast(SubSeq(match, 1, Len(match) - 1), name_capture_key, content_bytes)

\* lines 289-293: the text of the name capture of the first dict that has one
RECURSIVE EntityName(_, _, _)
EntityName(match, name_capture_key, content_bytes) ==
    IF match = <<>> THEN Unnamed
    ELSE IF HasKey(Head(match), name_capture_key)
         THEN get_node_text(Lookup(Head(match), name_capture_key), content_bytes)
    ELSE EntityName(Tail(match), name_capture_key, content_bytes)

\* lines 278-302: the dict appended to chunks, with the locals start_byte and end_byte
BuildChunk(file_path, entity_type, name_capture_key, match, content_bytes) ==
    Once(<<CoveringSpan(MatchNodes(match)), ChunkLines(MatchNodes(match))>>,
         LAMBDA at :
           LET span == at[1]
               lines == at[2]
           IN [chunk |-> [file_path |-> file_path,
                          entity_type |-> entity_type,
                          entity_name |-> EntityName(match, name_capture_key, content_bytes),
                          start_line |-> lines.start_line,
                          end_line |-> lines.end_line,
                          code_content |-> ChunkContent(content_bytes, span.start_byte,
                                                        span.end_byte)],
               start_byte |-> span.start_byte,
               end_byte |-> span.end_byte])

\* the entity of a match is appended twice
MatchChunksTwice(file_path, entity_type, name_capture_key, match, content_bytes) ==
    IF match = <<>> THEN <<>>
    ELSE IF MatchNodes(match) = <<>> THEN <<>>
    ELSE << BuildChunk(file_path, entity_type, name_capture_key, match, content_bytes),
            BuildChunk(file_path, entity_type, name_capture_key, match, content_bytes) >>

\* lines 260-302: one pass of the loop body; <<>> when the match is skipped
MatchChunks(file_path, entity_type, name_capture_key, match, content_bytes) ==
    IF match = <<>> THEN <<>>                       \* line 260
    ELSE IF MatchNodes(match) = <<>> THEN <<>>      \* line 275
    ELSE <<BuildChunk(file_path, entity_type, name_capture_key, match, content_bytes)>>

-----------------------------------------------------------------------------
(* Configuration, lines 30-104.  A name is the sequence of its code points. *)

SKIP_DIRS ==
    { <<46, 103, 105, 116>>,   \* .git
      <<46, 115, 118, 110>>,   \* .svn
      <<46, 104, 103>>,   \* .hg
      <<46, 105, 100, 101, 97>>,   \* .idea
      <<46, 118, 115, 99, 111, 100, 101>>,   \* .vscode
      <<46, 118, 115>>,   \* .vs
      <<116, 97, 114, 103, 101, 116>>,   \* target
      <<98, 117, 105, 108, 100>>,   \* build
      <<100, 105, 115, 116>>,   \* dist
      <<111, 117, 116>>,   \* out
      <<98, 105, 110>>,   \* bin
      <<111, 98, 106>>,   \* obj
      <<114, 101, 108, 101, 97, 115, 101>>,   \* release
      <<99, 111, 118, 101, 114, 97, 103, 101>>,   \* coverage
      <<110, 111, 100, 101, 95, 109, 111, 100, 117, 108, 101, 115>>,   \* node_modules
      <<118, 101, 110, 100, 111, 114>>,   \* vendor
      <<98, 111, 119, 101, 114, 95, 99, 111, 109, 112, 111, 110, 101, 110, 116, 115>>,   \* bower_components
      <<46, 109, 50>>,   \* .m2
      <<118, 101, 110, 118>>,   \* venv
      <<46, 118, 101, 110, 118>>,   \* .venv
      <<101, 110, 118>>,   \* env
      <<46, 101, 110, 118>>,   \* .env
      <<69, 78, 86>>,   \* ENV
      <<95, 95, 112, 121, 99, 97, 99, 104, 101, 95, 95>>,   \* __pycache__
      <<46, 112, 121, 116, 101, 115, 116, 95, 99, 97, 99, 104, 101>>,   \* .pytest_cache
      <<46, 109, 121, 112, 121, 95, 99, 97, 99, 104, 101>>,   \* .mypy_cache
      <<46, 116, 111, 120>>,   \* .tox
      <<108, 111, 103, 115>>,   \* logs
      <<116, 101, 109, 112>>,   \* temp
      <<116, 109, 112>>,   \* tmp
      <<46, 68, 83, 95, 83, 116, 111, 114, 101>>,   \* .DS_Store
      <<84, 104, 117, 109, 98, 115, 46, 100, 98>> }   \* Thumbs.db

Ext_java == <<46, 106, 97, 118, 97>>   \* .java
Ext_py == <<46, 112, 121>>   \* .py
Ext_js == <<46, 106, 115>>   \* .js
Ext_ts == <<46, 116, 115>>   \* .ts
Ext_go == <<46, 103, 111>>   \* .go
Ext_rb == <<46, 114, 98>>   \* .rb
Ext_cs == <<46, 99, 115>>   \* .cs

AST_PARSE_EXTS == {Ext_java, Ext_py, Ext_js, Ext_ts, Ext_go, Ext_rb, Ext_cs}

TEST_SUFFIXES ==
    { <<84, 101, 115, 116, 46, 106, 97, 118, 97>>,   \* Test.java
      <<84, 101, 115, 116, 115, 46, 106, 97, 118, 97>>,   \* Tests.java
      <<73, 84, 46, 106, 97, 118, 97>>,   \* IT.java
      <<83, 112, 101, 99, 46, 106, 97, 118, 97>>,   \* Spec.java
      <<84, 101, 115, 116, 46, 107, 116>>,   \* Test.kt
      <<84, 101, 115, 116, 115, 46, 107, 116>>,   \* Tests.kt
      <<46, 116, 101, 115, 116, 46, 106, 115>>,   \* .test.js
      <<46, 115, 112, 101, 99, 46, 106, 115>>,   \* .spec.js
      <<46, 116, 101, 115, 116, 46, 106, 115, 120>>,   \* .test.jsx
      <<46, 116, 101, 115, 116, 46, 116, 115>>,   \* .test.ts
      <<46, 115, 112, 101, 99, 46, 116, 115>>,   \* .spec.ts
      <<46, 116, 101, 115, 116, 46, 116, 115, 120>>,   \* .test.tsx
      <<95, 116, 101, 115, 116, 46, 112, 121>>,   \* _test.py
      <<95, 115, 112, 101, 99, 46, 114, 98>>,   \* _spec.rb
      <<95, 116, 101, 115, 116, 46, 103, 111>>,   \* _test.go
      <<84, 101, 115, 116, 115, 46, 99, 115>> }   \* Tests.cs

\* the dict LANGUAGE_GRAMMARS_CONFIG, in its insertion order
LANGUAGE_GRAMMARS_CONFIG ==
    << [ext |-> Ext_java, lang |-> "java"],
       [ext |-> Ext_py, lang |-> "python"],
       [ext |-> Ext_js, lang |-> "javascript"],
       [ext |-> Ext_ts, lang |-> "typescript"] >>

ConfigExts == { LANGUAGE_GRAMMARS_CONFIG[i].ext : i \in DOMAIN LANGUAGE_GRAMMARS_CONFIG }

\* LANGUAGE_GRAMMARS_CONFIG[ext]
ConfigLang(ext) ==
    LANGUAGE_GRAMMARS_CONFIG[CHOOSE i \in DOMAIN LANGUAGE_GRAMMARS_CONFIG :
                                LANGUAGE_GRAMMARS_CONFIG[i].ext = ext].lang

\* A query string of AST_QUERIES, by what it spells: the node type it matches,
\* the type of the node's name field, and the one capture it binds, which is
\* the name field: '(node_type name: (name_type) @name)'.
Query(node_type, name_type) ==
    [node_type |-> node_type, name_type |-> name_type, capture |-> "name"]

Entry(entity_type, query) ==
    [entity_type |-> entity_type, query |-> query, name_capture |-> "name"]

AST_QUERIES ==
    [lang \in {"java", "python", "javascript", "typescript"} |->
        CASE lang = "java" ->
               << Entry("CLASS", Query("class_declaration", "identifier")),
                  Entry("INTERFACE", Query("interface_declaration", "identifier")),
                  Entry("METHOD", Query("method_declaration", "identifier")),
                  Entry("CONSTRUCTOR", Query("constructor_declaration", "identifier")),
                  Entry("ENUM", Query("enum_declaration", "identifier")) >>
          [] lang = "python" ->
               << Entry("CLASS", Query("class_definition", "identifier")),
                  Entry("FUNCTION", Query("function_definition", "identifier")) >>
          [] lang = "javascript" ->
               << Entry("CLASS", Query("class_declaration", "identifier")),
                  Entry("FUNCTION", Query("function_declaration", "identifier")),
                  Entry("METHOD", Query("method_definition", "property_identifier")),
                  Entry("ARROW_FUNCTION_VARIABLE", Query("lexical_declaration", "identifier")) >>
          [] lang = "typescript" ->
               << Entry("CLASS", Query("class_declaration", "type_identifier")),
                  Entry("INTERFACE", Query("interface_declaration", "type_identifier")),
                  Entry("FUNCTION", Query("function_declaration", "identifier")),
                  Entry("METHOD", Query("method_definition", "property_identifier")) >>]

\* the catalog of java is used for the files of every language
QueriesOfJava(lang) == AST_QUERIES["java"]

\* AST_QUERIES.get(lang, [])
QueriesFor(lang) == IF lang \in DOMAIN AST_QUERIES THEN AST_QUERIES[lang] ELSE <<>>

-----------------------------------------------------------------------------
(* Helper functions, lines 134-150 *)

DOT == 46       \* '.'

\* only the listed names are skipped, not the other names that start with a dot
is_skipped_dir_if_listed(d) == d \in SKIP_DIRS

\* is_skipped_dir
is_skipped_dir(d) ==
    \/ d \in SKIP_DIRS
    \/ /\ StartsWith(d, <<DOT>>)
       /\ d \notin { <<46, 103, 105, 116, 104, 117, 98>>,                  \* .github
                     <<46, 103, 105, 116, 108, 97, 98, 45, 99, 105>> }     \* .gitlab-ci

\* only the name of the file is looked at, not the directories above it
is_test_file_by_name(p) ==
    \E suf \in TEST_SUFFIXES : EndsWith(p[Len(p)], suf)

\* is_test_file, on the parts of a relative path
is_test_file(p) ==
    LET name == p[Len(p)]
        lowered_parts == { Lower(p[i]) : i \in DOMAIN p }
    IN \/ \E suf \in TEST_SUFFIXES : EndsWith(name, suf)
       \/ <<116, 101, 115, 116>> \in lowered_parts           \* 'test'
       \/ <<116, 101, 115, 116, 115>> \in lowered_parts      \* 'tests'

\* Path.suffix: from the last dot of the name, unless the name starts or ends with it
Suffix(name) ==
    LET dots == { i \in DOMAIN name : name[i] = DOT }
    IN IF dots = {} THEN <<>>
       ELSE LET last == CHOOSE i \in dots : \A j \in dots : j <= i
            IN IF last > 1 /\ last < Len(name) THEN SubSeq(name, last, Len(name)) ELSE <<>>

-----------------------------------------------------------------------------
(* The project under scan: a directory tree, the bytes of its files and the  *)
(* declarations tree-sitter finds in them.                                   *)

N_Foo_java == <<70, 111, 111, 46, 106, 97, 118, 97>>   \* Foo.java
N_notes_txt == <<110, 111, 116, 101, 115, 46, 116, 120, 116>>   \* notes.txt
N_main_go == <<109, 97, 105, 110, 46, 103, 111>>   \* main.go
N_pkg == <<112, 107, 103>>   \* pkg
N_lib == <<108, 105, 98>>   \* lib
N_node_modules == <<110, 111, 100, 101, 95, 109, 111, 100, 117, 108, 101, 115>>   \* node_modules
N_G_java == <<71, 46, 106, 97, 118, 97>>   \* G.java
N_FooTest_java == <<70, 111, 111, 84, 101, 115, 116, 46, 106, 97, 118, 97>>   \* FooTest.java
N_m_py == <<109, 46, 112, 121>>   \* m.py
N_init_py == <<95, 95, 105, 110, 105, 116, 95, 95, 46, 112, 121>>   \* __init__.py
N_x_js == <<120, 46, 106, 115>>   \* x.js
N_Tests == <<84, 101, 115, 116, 115>>   \* Tests
N_T_java == <<84, 46, 106, 97, 118, 97>>   \* T.java
N_github == <<46, 103, 105, 116, 104, 117, 98>>   \* .github
N_cache == <<46, 99, 97, 99, 104, 101>>   \* .cache
N_E_TS == <<69, 46, 84, 83>>   \* E.TS
N_K_java == <<75, 46, 106, 97, 118, 97>>   \* K.java

ROOT == <<>>        \* the scan root, as a relative path

\* what os.walk finds in each directory: dirnames and filenames
Listing ==
    [d \in {ROOT, <<N_pkg>>, <<N_lib>>, <<N_node_modules>>, <<N_lib, N_Tests>>,
             <<N_pkg, N_github>>, <<N_pkg, N_cache>>} |->
        CASE d = ROOT ->
               [dirs |-> {N_pkg, N_lib, N_node_modules},
                files |-> {N_notes_txt, N_main_go, N_Foo_java}]
          [] d = <<N_pkg>> ->
               [dirs |-> {N_github, N_cache}, files |-> {N_G_java, N_FooTest_java}]
          [] d = <<N_pkg, N_github>> ->
               [dirs |-> {}, files |-> {N_E_TS}]
          [] d = <<N_pkg, N_cache>> ->
               [dirs |-> {}, files |-> {N_K_java}]
          [] d = <<N_lib>> ->
               [dirs |-> {N_Tests}, files |-> {N_m_py, N_init_py}]
          [] d = <<N_lib, N_Tests>> ->
               [dirs |-> {}, files |-> {N_T_java}]
          [] d = <<N_node_modules>> ->
               [dirs |-> {}, files |-> {N_x_js}]]

FooPath == <<N_Foo_java>>
TPath == <<N_lib, N_Tests, N_T_java>>
KPath == <<N_pkg, N_cache, N_K_java>>
EPath == <<N_pkg, N_github, N_E_TS>>
GPath == <<N_pkg, N_G_java>>
MPath == <<N_lib, N_m_py>>

FooBytes ==         \* class Foo { void bar() {} }
    <<99, 108, 97, 115, 115, 32, 70, 111, 111, 32, 123, 32, 118, 111, 105, 100, 32, 98, 97, 114, 40, 41, 32, 123, 125, 32, 125>>

GBytes ==           \* class Unnamed {\n void run() {}\n}\n
    <<99, 108, 97, 115, 115, 32, 85, 110, 110, 97, 109, 101, 100, 32, 123, 10, 32, 118, 111, 105, 100, 32, 114, 117, 110, 40, 41, 32, 123, 125, 10, 125, 10>>

MBytes ==           \* def f\xc3\xa9():\n  pass\n   (a function named f, e-acute)
    <<100, 101, 102, 32, 102, 195, 169, 40, 41, 58, 10, 32, 32, 112, 97, 115, 115, 10>>

EBytes ==           \* function f(){} enum E {}
    <<102, 117, 110, 99, 116, 105, 111, 110, 32, 102, 40, 41, 123, 125, 32, 101, 110, 117, 109, 32, 69, 32, 123, 125>>

XBytes ==           \* class X {}
    <<99, 108, 97, 115, 115, 32, 88, 32, 123, 125>>

\* the bytes open(p, 'rb').read() returns; __init__.py and the rest are empty
FileBytes(path) ==
    CASE path = FooPath -> FooBytes
      [] path = GPath -> GBytes
      [] path = <<N_pkg, N_FooTest_java>> -> FooBytes
      [] path = TPath -> FooBytes
      [] path = KPath -> FooBytes
      [] path = EPath -> EBytes
      [] path = MPath -> MBytes
      [] path = <<N_node_modules, N_x_js>> -> XBytes
      [] OTHER -> <<>>

\* a declaration of a parsed tree: its node type, its span, and its name field
Decl(type, s, e, name_type, ns, ne) ==
    [type |-> type, start_byte |-> s, end_byte |-> e,
     name_type |-> name_type, name_start |-> ns, name_end |-> ne]

\* parser.parse(content_bytes): the declarations of each file, in source order
TreeOf(path) ==
    CASE path = FooPath ->
           << Decl("class_declaration", 0, 27, "identifier", 6, 9),
              Decl("method_declaration", 12, 25, "identifier", 17, 20) >>
      [] path = GPath ->
           << Decl("class_declaration", 0, 32, "identifier", 6, 13),
              Decl("method_declaration", 17, 30, "identifier", 22, 25) >>
      [] path = MPath ->
           << Decl("function_definition", 0, 17, "identifier", 4, 7) >>
      [] path = EPath ->
           << Decl("function_declaration", 0, 14, "identifier", 9, 10),
              Decl("enum_declaration", 15, 24, "identifier", 20, 21) >>
      [] path = <<N_node_modules, N_x_js>> ->
           << Decl("class_declaration", 0, 10, "identifier", 6, 7) >>
      [] path \in {TPath, KPath, <<N_pkg, N_FooTest_java>>} ->
           << Decl("class_declaration", 0, 27, "identifier", 6, 9),
              Decl("method_declaration", 12, 25, "identifier", 17, 20) >>
      [] OTHER -> <<>>

-----------------------------------------------------------------------------
(* The matcher, line 259 *)

\* query.matches(root_node) for a query of the catalog: one match per
\* declaration of the query's node type, in source order, whose only capture
\* is the declaration's name field
RECURSIVE TreeMatches(_, _, _)
TreeMatches(tree, query, content) ==
    IF tree = <<>> THEN <<>>
    ELSE LET d == Head(tree)
             rest == TreeMatches(Tail(tree), query, content)
         IN IF d.type = query.node_type /\ d.name_type = query.name_type
            THEN << << <<Cap(query.capture, Node(content, d.name_start, d.name_end))>> >> >> \o rest
            ELSE rest

\* The matches of the CLASS entry on pkg/G.java are a free input of the scan:
\* any list of up to MaxMatches of these matches, which are of every shape the
\* loop body tells apart.
G_name == << <<Cap("name", Node(GBytes, 6, 13))>> >>       \* the name "Unnamed" alone
G_body == << <<Cap("body", Node(GBytes, 14, 32))>> >>      \* no name capture
G_two ==                                                   \* two names; the span ends are in different dicts
    << <<Cap("body", Node(GBytes, 14, 32)), Cap("name", Node(GBytes, 22, 25))>>,
       <<Cap("name", Node(GBytes, 6, 13))>> >>
G_none == <<>>                                             \* a match with no capture dict
G_hollow == << <<>> >>                                     \* a match whose capture dict is empty

GUniverse == {G_name, G_body, G_two, G_none, G_hollow}

\* a match whose name capture is bound to a list of two nodes: the loop body
\* raises on it
G_list == << <<Cap("name", NodeList(<<Node(GBytes, 6, 13), Node(GBytes, 22, 25)>>))>> >>

\* query.matches(root_node), line 259
query_matches(file_path, entry, content, e) ==
    IF file_path = GPath /\ entry.entity_type = "CLASS"
    THEN e.gmatches
    ELSE TreeMatches(TreeOf(file_path), entry.query, content)

-----------------------------------------------------------------------------
(* parse_file_with_tree_sitter, lines 188-307 *)

LogEntry(kind, ext, path, entity_type) ==
    [kind |-> kind, ext |-> ext, path |-> path, entity_type |-> entity_type]

\* an element of chunks, with where it came from
Traced(built, file_path, entity_type, k) ==
    [chunk |-> built.chunk,
     trace |-> [file_path |-> file_path, entity_type |-> entity_type, match_index |-> k,
                start_byte |-> built.start_byte, end_byte |-> built.end_byte]]

\* the loop without the guards of lines 260 and 275: min() of no nodes raises,
\* the except of line 304 ends the loop, and the later matches are lost
RECURSIVE QueryChunksUnguarded(_, _, _, _, _, _)
QueryChunksUnguarded(k, file_path, entity_type, name_capture_key, matches, content_bytes) ==
    IF k > Len(matches) THEN <<>>
    ELSE IF MatchNodes(matches[k]) = <<>> THEN <<>>
    ELSE Once(MatchChunks(file_path, entity_type, name_capture_key,
                          matches[k], content_bytes),
              LAMBDA built :
                [i \in DOMAIN built |-> Traced(built[i], file_path, entity_type, k)])
         \o QueryChunksUnguarded(k + 1, file_path, entity_type, name_capture_key,
                                    matches, content_bytes)

\* lines 259-302: the loop over the matches of one query, from match k on; an
\* exception raised in the body leaves the loop for the except of line 304
RECURSIVE QueryChunksFrom(_, _, _, _, _, _)
QueryChunksFrom(k, file_path, entity_type, name_capture_key, matches, content_bytes) ==
    IF k > Len(matches) THEN <<>>
    ELSE IF Raises(matches[k]) THEN <<>>
    ELSE Once(MatchChunks(file_path, entity_type, name_capture_key,
                          matches[k], content_bytes),
              LAMBDA built :
                [i \in DOMAIN built |-> Traced(built[i], file_path, entity_type, k)])
         \o QueryChunksFrom(k + 1, file_path, entity_type, name_capture_key,
                               matches, content_bytes)

\* every match built from the captures of the whole file, as query.captures gives them
QueryChunksFlattened(file_path, entity_type, name_capture_key, matches, content_bytes) ==
    LET RECURSIVE Flat(_)
        Flat(ms) == IF ms = <<>> THEN <<>> ELSE Head(ms) \o Flat(Tail(ms))
    IN QueryChunksFrom(1, file_path, entity_type, name_capture_key,
                       [k \in DOMAIN matches |-> Flat(matches)], content_bytes)

\* lines 259-302: the loop over the matches of one query
QueryChunks(file_path, entity_type, name_capture_key, matches, content_bytes) ==
    QueryChunksFrom(1, file_path, entity_type, name_capture_key, matches, content_bytes)

\* ts_lang_obj.query(query_str), line 205: does the pattern compile
Compiles(lang, entry, e) == <<lang, entry.entity_type>> \notin e.bad_patterns

\* lines 304-306: what the except clause prints
QueryErrorLines(file_path, entity_type) ==
    << LogEntry("query_error", <<>>, file_path, entity_type),
       LogEntry("query_was", <<>>, file_path, entity_type) >>

\* the entities a definition has appended are taken back when it raises
RunQueryAllOrNothing(entry, file_path, lang, content_bytes, e) ==
    IF Compiles(lang, entry, e)
    THEN Once(query_matches(file_path, entry, content_bytes, e),
              LAMBDA matches :
                [chunks |-> IF \E k \in DOMAIN matches : Raises(matches[k])
                            THEN <<>>
                            ELSE QueryChunks(file_path, entry.entity_type,
                                             entry.name_capture, matches, content_bytes),
                 log |-> IF \E k \in DOMAIN matches : Raises(matches[k])
                         THEN QueryErrorLines(file_path, entry.entity_type)
                         ELSE <<>>,
                 compiled |-> << [file_path |-> file_path, lang |-> lang,
                                  entity_type |-> entry.entity_type, ok |-> TRUE] >>])
    ELSE [chunks |-> <<>>,
          log |-> QueryErrorLines(file_path, entry.entity_type),
          compiled |-> << [file_path |-> file_path, lang |-> lang,
                           entity_type |-> entry.entity_type, ok |-> FALSE] >>]

\* lines 204-306: one pass of the loop over the catalog entries: the pattern is
\* compiled and its matches are built, up to one that raises; the error of the
\* compilation or of the match is printed
RunQuery(entry, file_path, lang, content_bytes, e) ==
    IF Compiles(lang, entry, e)
    THEN Once(query_matches(file_path, entry, content_bytes, e),
              LAMBDA matches :
                [chunks |-> QueryChunks(file_path, entry.entity_type, entry.name_capture,
                                        matches, content_bytes),
                 log |-> IF \E k \in DOMAIN matches : Raises(matches[k])
                         THEN QueryErrorLines(file_path, entry.entity_type)
                         ELSE <<>>,
                 compiled |-> << [file_path |-> file_path, lang |-> lang,
                                  entity_type |-> entry.entity_type, ok |-> TRUE] >>])
    ELSE [chunks |-> <<>>,
          log |-> QueryErrorLines(file_path, entry.entity_type),
          compiled |-> << [file_path |-> file_path, lang |-> lang,
                           entity_type |-> entry.entity_type, ok |-> FALSE] >>]

\* what the later pass appended and printed is put before the earlier pass's
JoinLaterFirst(a, b) ==
    [chunks |-> b.chunks \o a.chunks, log |-> b.log \o a.log,
     compiled |-> b.compiled \o a.compiled]

\* what two passes of a loop appended and printed, one after the other
Join(a, b) ==
    [chunks |-> a.chunks \o b.chunks, log |-> a.log \o b.log,
     compiled |-> a.compiled \o b.compiled]

\* lines 203-306: the loop over the catalog entries of the language, in order
RECURSIVE RunQueries(_, _, _, _, _)
RunQueries(queries, file_path, lang, content_bytes, e) ==
    IF queries = <<>> THEN [chunks |-> <<>>, log |-> <<>>, compiled |-> <<>>]
    ELSE Once(RunQuery(Head(queries), file_path, lang, content_bytes, e),
              LAMBDA first :
                Once(RunQueries(Tail(queries), file_path, lang, content_bytes, e),
                     LAMBDA rest : Join(first, rest)))

\* the queries are run although parser.parse raised
parse_file_despite_error(file_path, lang_ext, content_bytes, e) ==
    IF lang_ext \notin DOMAIN LANGUAGES
    THEN [raised |-> FALSE, chunks |-> <<>>, compiled |-> <<>>,
          log |-> <<LogEntry("no_grammar_object", lang_ext, file_path, "")>>]
    ELSE Once(RunQueries(QueriesFor(ConfigLang(lang_ext)), file_path,
                         ConfigLang(lang_ext), content_bytes, e),
              LAMBDA r : [raised |-> FALSE, chunks |-> r.chunks,
                          compiled |-> r.compiled, log |-> r.log])

\* parse_file_with_tree_sitter; raised: parser.parse (line 198) raised
parse_file_with_tree_sitter(file_path, lang_ext, content_bytes, e) ==
    IF lang_ext \notin DOMAIN LANGUAGES
    THEN [raised |-> FALSE, chunks |-> <<>>, compiled |-> <<>>,
          log |-> <<LogEntry("no_grammar_object", lang_ext, file_path, "")>>]
    ELSE IF file_path \in e.parse_fails
    THEN [raised |-> TRUE, chunks |-> <<>>, compiled |-> <<>>, log |-> <<>>]
    ELSE Once(RunQueries(QueriesFor(ConfigLang(lang_ext)), file_path,
                         ConfigLang(lang_ext), content_bytes, e),
              LAMBDA r : [raised |-> FALSE, chunks |-> r.chunks,
                          compiled |-> r.compiled, log |-> r.log])

-----------------------------------------------------------------------------
(* _load_tree_sitter_languages, lines 109-128 *)

\* a grammar whose load raised is put in LANGUAGES all the same
LoadOneKeepsFailed(c, e) ==
    IF c.ext \notin AST_PARSE_EXTS THEN [loaded |-> <<>>, log |-> <<>>]
    ELSE IF c.ext \in e.load_fails
    THEN [loaded |-> <<c>>,
          log |-> << LogEntry("load_error", c.ext, <<>>, ""),
                     LogEntry("load_skipped", c.ext, <<>>, "") >>]
    ELSE [loaded |-> <<c>>, log |-> <<LogEntry("load_ok", c.ext, <<>>, "")>>]

\* lines 118-127: one pass of the loop over the configuration
LoadOne(c, e) ==
    IF c.ext \notin AST_PARSE_EXTS THEN [loaded |-> <<>>, log |-> <<>>]
    ELSE IF c.ext \in e.load_fails
    THEN [loaded |-> <<>>,
          log |-> << LogEntry("load_error", c.ext, <<>>, ""),
                     LogEntry("load_skipped", c.ext, <<>>, "") >>]
    ELSE [loaded |-> <<c>>, log |-> <<LogEntry("load_ok", c.ext, <<>>, "")>>]

\* the loop over the configuration ends at the first grammar that fails to load
LoadAllStopsAtFailure(e) ==
    LET failed == { i \in DOMAIN LANGUAGE_GRAMMARS_CONFIG :
                        LANGUAGE_GRAMMARS_CONFIG[i].ext \in e.load_fails }
        upto == IF failed = {} THEN Len(LANGUAGE_GRAMMARS_CONFIG)
                ELSE CHOOSE i \in failed : \A j \in failed : i <= j
    IN [loaded |-> Concat([i \in 1..upto |->
                              LoadOne(LANGUAGE_GRAMMARS_CONFIG[i], e).loaded]),
        log |-> Concat([i \in 1..upto |->
                           LoadOne(LANGUAGE_GRAMMARS_CONFIG[i], e).log])]

\* lines 118-127: the loop over the configuration, in its order
LoadAll(e) ==
    [loaded |-> Concat([i \in DOMAIN LANGUAGE_GRAMMARS_CONFIG |->
                           LoadOne(LANGUAGE_GRAMMARS_CONFIG[i], e).loaded]),
     log |-> Concat([i \in DOMAIN LANGUAGE_GRAMMARS_CONFIG |->
                        LoadOne(LANGUAGE_GRAMMARS_CONFIG[i], e).log])]

\* the grammars are loaded without the check that the artifact exists
load_tree_sitter_languages_unchecked(e) ==
    LET r == LoadAll(e)
        exts == { r.loaded[i].ext : i \in DOMAIN r.loaded }
    IN [LANGUAGES |-> [x \in exts \cup DOMAIN LANGUAGES |->
                          IF x \in exts THEN ConfigLang(x) ELSE LANGUAGES[x]],
        log |-> r.log]

\* the loop over the configuration is run a second time
load_tree_sitter_languages_twice(e) ==
    IF ~e.grammar_exists
    THEN [LANGUAGES |-> LANGUAGES,
          log |-> << LogEntry("grammar_missing", <<>>, <<>>, ""),
                     LogEntry("grammar_hint", <<>>, <<>>, "") >>]
    ELSE LET r == LoadAll(e)
             exts == { r.loaded[i].ext : i \in DOMAIN r.loaded }
         IN [LANGUAGES |-> [x \in exts \cup DOMAIN LANGUAGES |->
                               IF x \in exts THEN ConfigLang(x) ELSE LANGUAGES[x]],
             log |-> r.log \o r.log]

\* the dict LANGUAGES after the load, and what the load printed
load_tree_sitter_languages(e) ==
    IF ~e.grammar_exists
    THEN [LANGUAGES |-> LANGUAGES,
          log |-> << LogEntry("grammar_missing", <<>>, <<>>, ""),
                     LogEntry("grammar_hint", <<>>, <<>>, "") >>]
    ELSE LET r == LoadAll(e)
             exts == { r.loaded[i].ext : i \in DOMAIN r.loaded }
         IN [LANGUAGES |-> [x \in exts \cup DOMAIN LANGUAGES |->
                               IF x \in exts THEN ConfigLang(x) ELSE LANGUAGES[x]],
             log |-> r.log]

-----------------------------------------------------------------------------
(* The chunk builder on its own: every match over every short content *)

ByteValues == {65, NEWLINE, 255}        \* 'A', a line break, a byte no UTF-8 text holds

Contents == SeqsUpTo(MaxLen, ByteValues) \ {<<>>}

AllNodes(content) ==
    { Node(content, p[1], p[2]) :
        p \in { q \in (0..Len(content)) \X (0..Len(content)) : q[1] <= q[2] } }

CaptureLabels == {"name", "body"}

\* the capture dicts a match over content can hold: {} or {label: node}
CapDicts(content) ==
    {<<>>} \cup { <<Cap(l, n)>> : l \in CaptureLabels, n \in AllNodes(content) }

BuildPath == << <<70, 46, 112, 121>> >>     \* f.py

NotBuilt == [done |-> FALSE, chunks |-> <<>>]

\* the matcher binds one more capture dict in the match
AddCapture ==
    /\ ~b_out.done
    /\ Len(b_match) < MaxCaps
    /\ \E cap_dict \in CapDicts(b_content) : b_match' = Append(b_match, cap_dict)
    /\ UNCHANGED <<b_content, b_out, scan_vars, other_vars>>

\* the loop body runs on the match
BuildMatch ==
    /\ ~b_out.done
    /\ b_out' = [done |-> TRUE,
                 chunks |-> MatchChunks(BuildPath, "CLASS", "name", b_match, b_content)]
    /\ UNCHANGED <<b_content, b_match, scan_vars, other_vars>>

-----------------------------------------------------------------------------
(* scan, lines 313-363 *)

NoFiles == {}

\* the inputs a scan can be given
Envs ==
    { e \in [grammar_exists : BOOLEAN,
             load_fails : {{}, {Ext_java}, {Ext_py}},
             bad_patterns : {{}, {<<"java", "CLASS">>}, {<<"java", "METHOD">>}},
             unreadable : {NoFiles, {FooPath}},
             parse_fails : {NoFiles, {FooPath}},
             gmatches : SeqsUpTo(MaxMatches, GUniverse)] :
        /\ (~e.grammar_exists => e.load_fails = {})
        /\ (e.unreadable # NoFiles => e.parse_fails = NoFiles) }

LoadedNothing == [x \in {} |-> ""]

IdleBuilder ==
    /\ b_content = <<65>>
    /\ b_match = <<>>
    /\ b_out = [done |-> TRUE, chunks |-> <<>>]

\* the text scanner is not run
IdleText ==
    /\ t_pc = "off"
    /\ t_files = {}
    /\ t_pending = <<>>
    /\ t_structure = <<>>

\* safe_read_file is not called
IdleRead ==
    /\ r_call = <<>>
    /\ r_out = <<>>

\* the JSON structure scanner is not run
IdleJson ==
    /\ j_pc = "off"
    /\ j_args = [max_scan_depth |-> 0, max_file_size_kb |-> 0]
    /\ j_stack = <<>>
    /\ j_yielded = {}
    /\ j_dir = <<>>
    /\ j_filenames = <<>>
    /\ j_structure = <<>>
    /\ j_added = <<>>

\* the filtered scanner is not run
IdleStats ==
    /\ s_pc = "off"
    /\ s_config = <<>>
    /\ s_stack = <<>>
    /\ s_dir = <<>>
    /\ s_filenames = <<>>
    /\ s_counters = <<>>
    /\ s_doc = <<>>
    /\ s_returned = <<>>

\* the other scanners of the repository are not run
IdleOthers == IdleText /\ IdleRead /\ IdleJson /\ IdleStats

\* scan() has not started: nothing is loaded, walked or collected
Fresh ==
    /\ pc = "load"
    /\ run = 1
    /\ LANGUAGES = LoadedNothing
    /\ walk_stack = <<>>
    /\ cur_dir = ROOT
    /\ pending_files = <<>>
    /\ all_chunks = <<>>
    /\ chunk_trace = <<>>
    /\ log = <<>>
    /\ compiled = <<>>
    /\ visited = <<>>
    /\ output = <<>>
    /\ prev_chunks = <<>>
    /\ IdleBuilder
    /\ IdleOthers

Init == env \in Envs /\ Fresh

\* lines 318-321: load the grammars, then start the walk at the root
LoadLanguages ==
    /\ pc = "load"
    /\ LET r == load_tree_sitter_languages(env)
           warn == IF DOMAIN r.LANGUAGES = {} /\ ConfigExts \cap AST_PARSE_EXTS # {}
                   THEN <<LogEntry("warn_incomplete", <<>>, <<>>, "")>>
                   ELSE <<>>
       IN /\ LANGUAGES' = r.LANGUAGES
          /\ log' = log \o r.log \o warn
    /\ pc' = "walk"
    /\ walk_stack' = <<ROOT>>
    /\ UNCHANGED <<env, run, cur_dir, pending_files, all_chunks, chunk_trace,
                   compiled, visited, output, prev_chunks, build_vars, other_vars>>

\* lines 323-325: os.walk yields the next directory; the skipped dirnames are
\* pruned and the others are walked later in the order the listing gave them
WalkDir ==
    /\ pc = "walk"
    /\ pending_files = <<>>
    /\ walk_stack # <<>>
    /\ LET d == Head(walk_stack)
           kept == { x \in Listing[d].dirs : ~is_skipped_dir(x) }
       IN /\ \E order \in Orders(kept) :
                walk_stack' = [i \in DOMAIN order |-> Append(d, order[i])] \o Tail(walk_stack)
          /\ cur_dir' = d
          /\ pending_files' = Sorted(Listing[d].files)
    /\ UNCHANGED <<env, pc, run, LANGUAGES, all_chunks, chunk_trace, log, compiled,
                   visited, output, prev_chunks, build_vars, other_vars>>

\* the exception raised in parse_file_with_tree_sitter is not caught
LeavesLoopBodyUncaught(raised) == raised

\* lines 340-344: does an exception raised in parse_file_with_tree_sitter leave
\* the loop body; the except clause takes every Exception, so it does not
LeavesLoopBody(raised) == FALSE

\* the loop body without the check of line 336 that the grammar is loaded
HandleFileUnchecked(fpath_rel, e) ==
    LET file_ext == Lower(Suffix(fpath_rel[Len(fpath_rel)]))
        nothing == [chunks |-> <<>>, compiled |-> <<>>, log |-> <<>>, raised |-> FALSE]
    IN IF is_test_file(fpath_rel) THEN nothing
       ELSE IF file_ext \in AST_PARSE_EXTS
       THEN LET start == <<LogEntry("ast_parsing", file_ext, fpath_rel, "")>>
            IN IF fpath_rel \in e.unreadable
               THEN [nothing EXCEPT !.log = start \o <<LogEntry("read_error", file_ext, fpath_rel, "")>>]
               ELSE IF FileBytes(fpath_rel) = <<>>
               THEN [nothing EXCEPT !.log = start]
               ELSE Once(parse_file_with_tree_sitter(fpath_rel, file_ext,
                                                     FileBytes(fpath_rel), e),
                         LAMBDA r :
                           IF r.raised
                           THEN [nothing EXCEPT
                                    !.log = start \o <<LogEntry("critical", file_ext, fpath_rel, "")>>,
                                    !.raised = LeavesLoopBody(r.raised)]
                           ELSE [chunks |-> r.chunks, compiled |-> r.compiled,
                                 log |-> start \o r.log, raised |-> FALSE])
       ELSE IF file_ext \in AST_PARSE_EXTS /\ file_ext \notin DOMAIN LANGUAGES
       THEN [nothing EXCEPT !.log = <<LogEntry("skip_no_grammar", file_ext, fpath_rel, "")>>]
       ELSE nothing

\* lines 328-347 for one file: what it adds to all_chunks and what it prints;
\* raised: an exception leaves the loop body
HandleFile(fpath_rel, e) ==
    LET file_ext == Lower(Suffix(fpath_rel[Len(fpath_rel)]))
        nothing == [chunks |-> <<>>, compiled |-> <<>>, log |-> <<>>, raised |-> FALSE]
    IN IF is_test_file(fpath_rel) THEN nothing
       ELSE IF file_ext \in AST_PARSE_EXTS /\ file_ext \in DOMAIN LANGUAGES
       THEN LET start == <<LogEntry("ast_parsing", file_ext, fpath_rel, "")>>
            IN IF fpath_rel \in e.unreadable
               THEN [nothing EXCEPT !.log = start \o <<LogEntry("read_error", file_ext, fpath_rel, "")>>]
               ELSE IF FileBytes(fpath_rel) = <<>>
               THEN [nothing EXCEPT !.log = start]
               ELSE Once(parse_file_with_tree_sitter(fpath_rel, file_ext,
                                                     FileBytes(fpath_rel), e),
                         LAMBDA r :
                           IF r.raised
                           THEN [nothing EXCEPT
                                    !.log = start \o <<LogEntry("critical", file_ext, fpath_rel, "")>>,
                                    !.raised = LeavesLoopBody(r.raised)]
                           ELSE [chunks |-> r.chunks, compiled |-> r.compiled,
                                 log |-> start \o r.log, raised |-> FALSE])
       ELSE IF file_ext \in AST_PARSE_EXTS /\ file_ext \notin DOMAIN LANGUAGES
       THEN [nothing EXCEPT !.log = <<LogEntry("skip_no_grammar", file_ext, fpath_rel, "")>>]
       ELSE nothing

\* all_chunks.extend put the chunks of the file in front
ExtendInFront(chunks, file_chunks) == file_chunks \o chunks

\* line 342: all_chunks.extend(file_chunks)
Extend(chunks, file_chunks) == chunks \o file_chunks

\* one pass of the loop of line 327
ProcessFile ==
    /\ pc = "walk"
    /\ pending_files # <<>>
    /\ \E r \in {HandleFile(Append(cur_dir, Head(pending_files)), env)} :
          /\ all_chunks' = Extend(all_chunks, [i \in DOMAIN r.chunks |-> r.chunks[i].chunk])
          /\ chunk_trace' = Extend(chunk_trace, [i \in DOMAIN r.chunks |-> r.chunks[i].trace])
          /\ log' = log \o r.log
          /\ compiled' = compiled \o r.compiled
          /\ pc' = IF r.raised THEN "crashed" ELSE pc
    /\ visited' = Append(visited, Append(cur_dir, Head(pending_files)))
    /\ pending_files' = Tail(pending_files)
    /\ UNCHANGED <<env, run, LANGUAGES, walk_stack, cur_dir, output, prev_chunks,
                   build_vars, other_vars>>

\* lines 349-355: the walk is over; output_data is built from all_chunks
EndWalk ==
    /\ pc = "walk"
    /\ pending_files = <<>>
    /\ walk_stack = <<>>
    /\ pc' = "write"
    /\ UNCHANGED <<env, run, LANGUAGES, walk_stack, cur_dir, pending_files, all_chunks,
                   chunk_trace, log, compiled, visited, output, prev_chunks, build_vars, other_vars>>

\* lines 350-355: the document; the first three values are fixed texts of the scan
output_data(chunks) ==
    [project_name |-> "project_name",
     project_summary |-> "project_summary",
     llm_instructions |-> "llm_instructions",
     code_chunks |-> chunks]

\* lines 358-363: json.dump writes the document, or raises and the error is printed
WriteOutput ==
    /\ pc = "write"
    /\ \E ok \in BOOLEAN :
          /\ output' = IF ok THEN <<output_data(all_chunks)>> ELSE output
          /\ log' = Append(log, LogEntry(IF ok THEN "wrote" ELSE "write_error", <<>>, <<>>, ""))
    /\ pc' = "done"
    /\ UNCHANGED <<env, run, LANGUAGES, walk_stack, cur_dir, pending_files, all_chunks,
                   chunk_trace, compiled, visited, prev_chunks, build_vars, other_vars>>

\* the script is run again on the unchanged input, in a new process, which has
\* handed no document to json.dump yet
Rerun ==
    /\ pc = "done"
    /\ run < MaxRuns
    /\ run' = run + 1
    /\ prev_chunks' = all_chunks
    /\ pc' = "load"
    /\ LANGUAGES' = LoadedNothing
    /\ walk_stack' = <<>>
    /\ cur_dir' = ROOT
    /\ pending_files' = <<>>
    /\ all_chunks' = <<>>
    /\ chunk_trace' = <<>>
    /\ log' = <<>>
    /\ compiled' = <<>>
    /\ visited' = <<>>
    /\ output' = <<>>
    /\ UNCHANGED <<env, build_vars, other_vars>>

Next ==
    \/ LoadLanguages
    \/ WalkDir
    \/ ProcessFile
    \/ EndWalk
    \/ WriteOutput
    \/ Rerun

Spec == Init /\ [][Next]_vars

\* The scan is one thread that always takes its next step.  Progress is
\* checked on the inputs in which pkg/G.java has its one class match: the
\* faults of the grammars, the patterns and the files are all still drawn.
InitFair == Init /\ env.gmatches = <<G_name>>

FairSpec == InitFair /\ [][Next]_vars /\ WF_vars(Next)

\* The scan on inputs with more faults and fewer match lists: pkg/G.java, or
\* Foo.java and lib/m.py, may fail to parse, lib/m.py may be unreadable, and
\* the class matches of pkg/G.java are one of three lists.
FaultEnvs ==
    { e \in [grammar_exists : BOOLEAN,
             load_fails : {{}, {Ext_java}, {Ext_py}},
             bad_patterns : {{}, {<<"java", "METHOD">>}},
             unreadable : {NoFiles, {MPath}},
             parse_fails : {NoFiles, {GPath}, {FooPath, MPath}},
             gmatches : {<<G_name>>, <<G_two, G_name>>, <<G_none, G_name>>}] :
        /\ (~e.grammar_exists => e.load_fails = {})
        /\ (e.unreadable # NoFiles => e.parse_fails # {FooPath, MPath}) }

InitFaults == env \in FaultEnvs /\ Fresh

SpecFaults == InitFaults /\ [][Next]_vars

\* The scan on inputs in which the loop body raises on some matches: the class
\* matches of pkg/G.java are any list, of up to MaxMatches + 1 matches, of the
\* match with one name and the match the body raises on.
RaisingEnvs ==
    [grammar_exists : {TRUE},
     load_fails : {{}},
     bad_patterns : {{}, {<<"java", "METHOD">>}},
     unreadable : {NoFiles},
     parse_fails : {NoFiles, {FooPath}},
     gmatches : SeqsUpTo(MaxMatches + 1, {G_name, G_list})]

InitRaising == env \in RaisingEnvs /\ Fresh

SpecRaising == InitRaising /\ [][Next]_vars

-----------------------------------------------------------------------------
(* The specification of the chunk builder on its own *)

IdleScan ==
    /\ env = [grammar_exists |-> FALSE, load_fails |-> {}, bad_patterns |-> {},
              unreadable |-> NoFiles, parse_fails |-> NoFiles, gmatches |-> <<>>]
    /\ pc = "off"
    /\ run = 1
    /\ LANGUAGES = LoadedNothing
    /\ walk_stack = <<>>
    /\ cur_dir = ROOT
    /\ pending_files = <<>>
    /\ all_chunks = <<>>
    /\ chunk_trace = <<>>
    /\ log = <<>>
    /\ compiled = <<>>
    /\ visited = <<>>
    /\ output = <<>>
    /\ prev_chunks = <<>>

InitChunk ==
    /\ IdleScan
    /\ IdleOthers
    /\ b_content \in Contents
    /\ b_match = <<>>
    /\ b_out = NotBuilt

NextChunk == AddCapture \/ BuildMatch

SpecChunk == InitChunk /\ [][NextChunk]_vars

-----------------------------------------------------------------------------
(* Properties of the chunk builder, checked under SpecChunk *)

\* str.encode('utf-8') on the code points the model decodes to
RECURSIVE Encode(_)
Encode(s) ==
    IF s = <<>> THEN <<>>
    ELSE IF s[1] < 128 THEN <<s[1]>> \o Encode(Tail(s))
    ELSE <<192 + (s[1] \div 64), 128 + (s[1] % 64)>> \o Encode(Tail(s))

\* the bytes are UTF-8 text: one-byte and complete two-byte forms only
RECURSIVE ValidUtf8(_)
ValidUtf8(bs) ==
    IF bs = <<>> THEN TRUE
    ELSE IF IsAscii(bs[1]) THEN ValidUtf8(Tail(bs))
    ELSE IF IsLead2(bs[1]) /\ Len(bs) >= 2 /\ IsCont(bs[2]) THEN ValidUtf8(Tail(Tail(bs)))
    ELSE FALSE

\* the nodes a match binds, over all its capture dicts and labels
MatchNodeSet(match) ==
    UNION { { match[i][j].node : j \in DOMAIN match[i] } : i \in DOMAIN match }

SetMin(S) == CHOOSE x \in S : \A y \in S : x <= y
SetMax(S) == CHOOSE x \in S : \A y \in S : x >= y

\* the loop body has run on b_match and appended an entity
Built == b_out.done /\ b_out.chunks # <<>>
BuiltSlice == Slice(b_content, b_out.chunks[1].start_byte, b_out.chunks[1].end_byte)

C3_LinesOrdered ==
    Built =>
        LET c == b_out.chunks[1].chunk
            S == MatchNodeSet(b_match)
            lo == SetMin({ n.start_byte : n \in S })
            hi == SetMax({ n.end_byte : n \in S })
        IN /\ c.start_line >= 1
           /\ c.start_line <= c.end_line
           /\ \A n \in S : n.start_byte = lo => c.start_line = n.start_row + 1
           /\ \A n \in S : n.end_byte = hi => c.end_line = n.end_row + 1

\* an entity of two nodes that starts after the first line and ends on a later line
C3_Witness ==
    /\ Built
    /\ Cardinality(MatchNodeSet(b_match)) = 2
    /\ b_out.chunks[1].chunk.start_line = 2
    /\ b_out.chunks[1].chunk.end_line = 3

\* C4: for a match with a non-empty set S of captured nodes, start_byte is the
\* minimum start byte over S and end_byte the maximum end byte over S, so the
\* span contains every captured node.
C4_CoveringSpan ==
    (b_out.done /\ MatchNodeSet(b_match) # {}) =>
        LET S == MatchNodeSet(b_match)
        IN /\ Len(b_out.chunks) = 1
           /\ b_out.chunks[1].start_byte = SetMin({ n.start_byte : n \in S })
           /\ b_out.chunks[1].end_byte = SetMax({ n.end_byte : n \in S })
           /\ \A n \in S : /\ b_out.chunks[1].start_byte <= n.start_byte
                           /\ n.end_byte <= b_out.chunks[1].end_byte

\* a match of two disjoint nodes under different labels, the later one first
C4_Witness ==
    /\ Built
    /\ Len(b_match) = 2
    /\ b_match[1] # <<>> /\ b_match[2] # <<>>
    /\ b_match[1][1].label # b_match[2][1].label
    /\ b_match[2][1].node.end_byte <= b_match[1][1].node.start_byte
    /\ b_match[2][1].node.start_byte < b_match[2][1].node.end_byte
    /\ b_match[1][1].node.start_byte < b_match[1][1].node.end_byte
    /\ b_out.chunks[1].start_byte = b_match[2][1].node.start_byte
    /\ b_out.chunks[1].end_byte = b_match[1][1].node.end_byte

-----------------------------------------------------------------------------
(* Properties of the scan, checked under Spec *)

\* all_chunks with, for each entity, where it came from
TracedChunks ==
    [i \in DOMAIN all_chunks |-> [chunk |-> all_chunks[i], trace |-> chunk_trace[i]]]

\* the entities a catalog entry has emitted for a file, in the order of all_chunks
EmittedFor(path, entity_type) ==
    SelectSeq(TracedChunks,
              LAMBDA x : x.trace.file_path = path /\ x.trace.entity_type = entity_type)

EmittedForFile(path) ==
    SelectSeq(TracedChunks, LAMBDA x : x.trace.file_path = path)

ChunksOf(traced) == [i \in DOMAIN traced |-> traced[i].chunk]

LangOfPath(path) == ConfigLang(Lower(Suffix(path[Len(path)])))

EntryOf(lang, entity_type) ==
    LET qs == QueriesFor(lang)
    IN qs[CHOOSE i \in DOMAIN qs : qs[i].entity_type = entity_type]

\* every file of the project
AllFiles == UNION { { Append(d, f) : f \in Listing[d].files } : d \in DOMAIN Listing }

\* the files in a configured language, each with the entity types of the
\* language's catalog
CatalogPairs ==
    UNION { { <<p, QueriesFor(LangOfPath(p))[q].entity_type>> :
                q \in DOMAIN QueriesFor(LangOfPath(p)) } :
            p \in { f \in AllFiles : Lower(Suffix(f[Len(f)])) \in ConfigExts } }

\* the matches of each catalog entry on each file that are read off its tree
MatchesInTree ==
    [pt \in CatalogPairs |->
        TreeMatches(TreeOf(pt[1]), EntryOf(LangOfPath(pt[1]), pt[2]).query, FileBytes(pt[1]))]

\* the matches the matcher gave for a catalog entry on a file: query_matches
MatchesOf(path, entity_type) ==
    IF path = GPath /\ entity_type = "CLASS" THEN env.gmatches
    ELSE MatchesInTree[<<path, entity_type>>]

\* the match an entity was built from
TraceMatch(t) == MatchesOf(t.file_path, t.entity_type)[t.match_index]

\* every capture of a match, dict after dict
RECURSIVE AllCaps(_)
AllCaps(match) == IF match = <<>> THEN <<>> ELSE Head(match) \o AllCaps(Tail(match))

\* the nodes a match binds to a label, first bound first
BoundTo(match, label) == SelectSeq(AllCaps(match), LAMBDA c : c.label = label)

NonEmptyMatch(match) == \E i \in DOMAIN match : match[i] # <<>>

\* the scan has handled a file
Handled(path) == \E i \in DOMAIN visited : visited[i] = path

\* a file was parsed and every pattern of its language compiled
Extracted(path) ==
    /\ Handled(path)
    /\ Lower(Suffix(path[Len(path)])) \in DOMAIN LANGUAGES
    /\ path \notin env.unreadable
    /\ path \notin env.parse_fails
    /\ env.bad_patterns = {}

\* C1: from the fragment class Foo { void bar() {} } the CLASS and METHOD
\* entries yield exactly two entities: a CLASS named "Foo" whose span and
\* code_content cover the whole fragment, and a METHOD named "bar" whose span
\* and code_content cover only the method declaration.
C1_FooFragment ==
    Extracted(FooPath) =>
        LET found == EmittedForFile(FooPath)
        IN /\ Len(found) = 2
           /\ \E i, j \in DOMAIN found :
                /\ found[i].chunk.entity_type = "CLASS"
                /\ found[i].chunk.entity_name = <<70, 111, 111>>            \* Foo
                /\ found[i].trace.start_byte = 0
                /\ found[i].trace.end_byte = Len(FooBytes)
                /\ found[i].chunk.code_content = Decode(FooBytes)
                /\ found[j].chunk.entity_type = "METHOD"
                /\ found[j].chunk.entity_name = <<98, 97, 114>>             \* bar
                /\ found[j].trace.start_byte = 12
                /\ found[j].trace.end_byte = 25
                /\ found[j].chunk.code_content = Decode(Slice(FooBytes, 12, 25))

\* C5, as stated: entity_name is the text of the first node bound to the name
\* capture in the entity's match, and is "Unnamed" exactly when no node is
\* bound to it.
C5_NameExactlyWhen ==
    \A i \in DOMAIN all_chunks :
        LET bound == BoundTo(TraceMatch(chunk_trace[i]), "name")
        IN /\ bound # <<>> =>
                all_chunks[i].entity_name =
                    get_node_text(bound[1].node, FileBytes(chunk_trace[i].file_path))
           /\ (all_chunks[i].entity_name = Unnamed) <=> (bound = <<>>)

\* C5, amended: entity_name is the text of the first node bound to the name
\* capture in the entity's match, and is "Unnamed" when no node is bound to it
\* (a bound node whose text is "Unnamed" gives the same name).
C5_NameOfFirstBound ==
    \A i \in DOMAIN all_chunks :
        LET bound == BoundTo(TraceMatch(chunk_trace[i]), "name")
        IN /\ bound # <<>> =>
                all_chunks[i].entity_name =
                    get_node_text(bound[1].node, FileBytes(chunk_trace[i].file_path))
           /\ bound = <<>> => all_chunks[i].entity_name = Unnamed

\* one entity named by the first of two bound nodes, one with no bound node
C5_Witness ==
    \E i, j \in DOMAIN all_chunks :
        /\ Len(BoundTo(TraceMatch(chunk_trace[i]), "name")) = 2
        /\ all_chunks[i].entity_name = <<114, 117, 110>>                    \* run
        /\ BoundTo(TraceMatch(chunk_trace[j]), "name") = <<>>
        /\ all_chunks[j].entity_name = Unnamed

\* C6: a match that binds no node produces no entity and raises no error: the
\* file's entities are those of the match list without it, and the matches
\* after it are still processed.
C6_EmptyMatchDiscarded ==
    \A i \in DOMAIN compiled :
        compiled[i].ok =>
            LET path == compiled[i].file_path
                type == compiled[i].entity_type
                kept == SelectSeq(MatchesOf(path, type), NonEmptyMatch)
            IN /\ Len(EmittedFor(path, type)) = Len(kept)
               /\ \A k \in DOMAIN kept :
                    EmittedFor(path, type)[k].chunk =
                        BuildChunk(path, type, "name", kept[k], FileBytes(path)).chunk
               /\ \A k \in DOMAIN log :
                    ~(log[k].kind = "query_error" /\ log[k].path = path
                                                  /\ log[k].entity_type = type)

\* both kinds of empty match came before a match that was emitted
C6_Witness ==
    /\ env.gmatches \in {<<G_none, G_name>>, <<G_hollow, G_name>>}
    /\ Len(EmittedFor(GPath, "CLASS")) = 1
    /\ EmittedFor(GPath, "CLASS")[1].trace.match_index = 2
    /\ Len(EmittedFor(GPath, "METHOD")) = 1

\* C7: the span and the name of an entity are computed from the nodes of its
\* own match only, and separate matches are never merged into one entity.
C7_OwnMatchOnly ==
    /\ \A i \in DOMAIN all_chunks :
          LET t == chunk_trace[i]
              S == MatchNodeSet(TraceMatch(t))
              bound == BoundTo(TraceMatch(t), "name")
          IN /\ S # {}
             /\ t.start_byte = SetMin({ n.start_byte : n \in S })
             /\ t.end_byte = SetMax({ n.end_byte : n \in S })
             /\ all_chunks[i].code_content =
                    Decode(Slice(FileBytes(t.file_path), t.start_byte, t.end_byte))
             /\ all_chunks[i].entity_name =
                    IF bound = <<>> THEN Unnamed
                    ELSE get_node_text(bound[1].node, FileBytes(t.file_path))
    /\ \A i, j \in DOMAIN all_chunks :
          (/\ i < j
           /\ chunk_trace[i].file_path = chunk_trace[j].file_path
           /\ chunk_trace[i].entity_type = chunk_trace[j].entity_type)
              => chunk_trace[i].match_index < chunk_trace[j].match_index
    /\ \A i \in DOMAIN compiled :
          compiled[i].ok =>
              Len(EmittedFor(compiled[i].file_path, compiled[i].entity_type)) =
                  Len(SelectSeq(MatchesOf(compiled[i].file_path, compiled[i].entity_type),
                                NonEmptyMatch))

\* a file with two matches of one pattern and a match of another, three entities
C7_Witness ==
    /\ env.gmatches = <<G_two, G_name>>
    /\ Len(EmittedFor(GPath, "CLASS")) = 2
    /\ Len(EmittedFor(GPath, "METHOD")) = 1
    /\ EmittedFor(GPath, "CLASS")[1].trace.end_byte = 32
    /\ EmittedFor(GPath, "CLASS")[2].trace.end_byte = 13
    /\ EmittedFor(GPath, "METHOD")[1].trace.start_byte = 22

\* C8: two runs of the scan on the same unchanged file tree, language set and
\* catalog give the same entity list, element by element and in the same order.
C8_SameListTwice ==
    (run > 1 /\ pc = "done") => all_chunks = prev_chunks

\* C10: once the pattern of a definition has failed to compile for a language,
\* the definition is not compiled again on later files of that language and
\* contributes no entity, while the other definitions of the language still
\* emit theirs.
C10_SkippedForRemainder ==
    /\ \A i, j \in DOMAIN compiled :
          (/\ i < j
           /\ ~compiled[i].ok
           /\ compiled[i].lang = compiled[j].lang
           /\ compiled[i].entity_type = compiled[j].entity_type)
              => compiled[j].file_path = compiled[i].file_path
    /\ \A i \in DOMAIN all_chunks :
          <<LangOfPath(chunk_trace[i].file_path), chunk_trace[i].entity_type>>
              \notin env.bad_patterns
    /\ \A i \in DOMAIN compiled :
          compiled[i].ok =>
              Len(EmittedFor(compiled[i].file_path, compiled[i].entity_type)) =
                  Len(SelectSeq(MatchesOf(compiled[i].file_path, compiled[i].entity_type),
                                NonEmptyMatch))

-----------------------------------------------------------------------------
(* Progress of the scan, checked under FairSpec *)

\* the directories the walk descends into: no segment of the path is skipped
WalkedDirs == { d \in DOMAIN Listing : \A i \in DOMAIN d : ~is_skipped_dir(d[i]) }

\* the files of those directories
WalkedFiles == UNION { { Append(d, f) : f \in Listing[d].files } : d \in WalkedDirs }

\* the file reaches the match loop: not a test file, grammar loaded, readable,
\* not empty, and it parses
ParseEligible(path) ==
    /\ ~is_test_file(path)
    /\ Lower(Suffix(path[Len(path)])) \in AST_PARSE_EXTS \cap DOMAIN LANGUAGES
    /\ path \notin env.unreadable
    /\ path \notin env.parse_fails
    /\ FileBytes(path) # <<>>

\* every catalog entry of the file's language was run on it
WasParsed(path) ==
    \A q \in DOMAIN QueriesFor(LangOfPath(path)) :
        \E i \in DOMAIN compiled :
            /\ compiled[i].file_path = path
            /\ compiled[i].entity_type = QueriesFor(LangOfPath(path))[q].entity_type

AllFilesHandled ==
    \A p \in WalkedFiles : Handled(p) /\ (ParseEligible(p) => WasParsed(p))

\* C9: a failure while handling one file (unreadable file, grammar not loaded,
\* parse error, pattern error) never aborts the scan: every file that follows
\* is still processed, and the scan reaches the step that writes the output.
C9_NeverAborts ==
    /\ [](pc # "crashed")
    /\ [](pc = "write" => AllFilesHandled)
    /\ (pc = "load") ~> (pc = "write")

\* the first file failed, the later files were parsed, and the scan is at the write
C9_Witness ==
    /\ pc = "write"
    /\ \E k \in DOMAIN log : log[k].kind \in {"read_error", "critical"} /\ log[k].path = FooPath
    /\ \E k \in DOMAIN log : log[k].kind = "query_error" /\ log[k].path = GPath
    /\ WasParsed(GPath)
    /\ WasParsed(MPath)
    /\ EmittedForFile(MPath) # <<>>

-----------------------------------------------------------------------------
(* Properties of the scan under faults, checked under SpecFaults *)

\* file_ext of a relative path, line 334
ExtOf(path) == Lower(Suffix(path[Len(path)]))

\* how many lines of a given kind the scan has printed about an extension
Printed(kind, ext) ==
    Len(SelectSeq(log, LAMBDA l : l.kind = kind /\ l.ext = ext))

\* the files handled so far that are not test files and have the extension
HandledWithExt(ext) ==
    { i \in DOMAIN visited : ~is_test_file(visited[i]) /\ ExtOf(visited[i]) = ext }

\* the entities of the files with the extension
ChunksWithExt(ext) ==
    { i \in DOMAIN all_chunks : ExtOf(chunk_trace[i].file_path) = ext }

WantedExts == ConfigExts \cap AST_PARSE_EXTS

\* every catalog entry of the file's language was run on the file, and every
\* entry whose pattern compiles gave one entity for each match that binds a node
YieldsItsEntities(path) ==
    /\ WasParsed(path)
    /\ \A q \in DOMAIN QueriesFor(LangOfPath(path)) :
          LET type == QueriesFor(LangOfPath(path))[q].entity_type
          IN <<LangOfPath(path), type>> \notin env.bad_patterns =>
                Len(EmittedFor(path, type)) =
                    Len(SelectSeq(MatchesOf(path, type), NonEmptyMatch))

\* C12: a grammar load failure for one language is isolated to it: the
\* grammars of the other languages are loaded, their files yield their
\* entities, and the scan goes on to the write.
C12_LoadFailureIsolated ==
    /\ []((pc # "load" /\ env.grammar_exists) =>
            /\ DOMAIN LANGUAGES = WantedExts \ env.load_fails
            /\ \A ext \in DOMAIN LANGUAGES :
                  LANGUAGES[ext] = ConfigLang(ext) /\ Printed("load_ok", ext) = 1)
    /\ [](pc = "write" =>
            \A p \in WalkedFiles :
                (ParseEligible(p) /\ ExtOf(p) \notin env.load_fails) => YieldsItsEntities(p))
    /\ (pc = "load" /\ env.load_fails # {}) ~> (pc = "write")

\* the java grammar failed; python, javascript and typescript are loaded and
\* lib/m.py gave its entity
C12_Witness ==
    /\ pc = "write"
    /\ env.load_fails = {Ext_java}
    /\ DOMAIN LANGUAGES = {Ext_py, Ext_js, Ext_ts}
    /\ YieldsItsEntities(MPath)
    /\ Len(EmittedForFile(MPath)) = 1
    /\ EmittedForFile(FooPath) = <<>>

\* the file the loop of line 327 handles next
NextFile == Append(cur_dir, Head(pending_files))

\* where a file is in the order of the visit
VisitIndex(path) == CHOOSE i \in DOMAIN visited : visited[i] = path

\* the scan has printed a line of the kind about the file
PrintedFor(kind, path) == \E k \in DOMAIN log : log[k].kind = kind /\ log[k].path = path

\* C13: when parsing the bytes of a file fails, no entity is emitted for that
\* file only: the entities collected before are kept as they are, and the
\* other files, earlier and later, yield their entities.
C13_ParseFailureLocal ==
    /\ [](\A i \in DOMAIN all_chunks : chunk_trace[i].file_path \notin env.parse_fails)
    /\ [](\A v \in DOMAIN visited : ParseEligible(visited[v]) => YieldsItsEntities(visited[v]))
    /\ [][(pc = "walk" /\ pending_files # <<>> /\ NextFile \in env.parse_fails) =>
              (all_chunks' = all_chunks /\ chunk_trace' = chunk_trace /\ pc' = "walk")]_vars

\* pkg/G.java failed to parse after Foo.java had given its two entities, which
\* are still there, and lib/m.py, visited later, gave its entity
C13_Witness ==
    /\ pc = "write"
    /\ env.parse_fails = {GPath}
    /\ PrintedFor("critical", GPath)
    /\ VisitIndex(FooPath) < VisitIndex(GPath)
    /\ VisitIndex(GPath) < VisitIndex(MPath)
    /\ Len(EmittedForFile(FooPath)) = 2
    /\ EmittedForFile(GPath) = <<>>
    /\ Len(EmittedForFile(MPath)) = 1

\* the paths the written document names: its three texts name none, and
\* code_chunks names the file of each entity
RecordedFiles(doc) == { doc.code_chunks[i].file_path : i \in DOMAIN doc.code_chunks }

\* extraction was skipped for the file: the grammar of its language is not
\* loaded, or its parse failed
ExtractionSkipped(path) ==
    /\ ~is_test_file(path)
    /\ ExtOf(path) \in WantedExts
    /\ \/ ExtOf(path) \notin DOMAIN LANGUAGES
       \/ PrintedFor("critical", path)

\* C14: a file whose extraction is skipped, because the grammar of its
\* language is unavailable or because its parse fails, is still recorded in the
\* written output, as a file with no chunks.
C14_SkippedFileRecorded ==
    (pc = "done" /\ output # <<>>) =>
        \A v \in DOMAIN visited :
            ExtractionSkipped(visited[v]) =>
                /\ visited[v] \in RecordedFiles(output[1])
                /\ EmittedForFile(visited[v]) = <<>>

\* the lines the scan has printed about the file
LinesAbout(path) == SelectSeq(log, LAMBDA l : l.path = path)

\* C15: a file whose extension resolves to no supported language, an extension
\* listed for AST parsing with no language configured included, never reaches
\* the parser or the matcher, contributes no entity and raises no error.
C15_UnresolvedPassThrough ==
    /\ pc # "crashed"
    /\ \A v \in DOMAIN visited :
          LET p == visited[v]
          IN ExtOf(p) \notin ConfigExts =>
               /\ EmittedForFile(p) = <<>>
               /\ \A i \in DOMAIN compiled : compiled[i].file_path # p
               /\ \A k \in DOMAIN LinesAbout(p) : LinesAbout(p)[k].kind = "skip_no_grammar"
               /\ Len(LinesAbout(p)) = IF ExtOf(p) \in AST_PARSE_EXTS /\ ~is_test_file(p)
                                        THEN 1 ELSE 0

\* main.go, listed for AST parsing with no language configured, and notes.txt
\* were passed over while the other files gave their entities
C15_Witness ==
    /\ pc = "write"
    /\ Handled(<<N_main_go>>) /\ Handled(<<N_notes_txt>>)
    /\ Len(LinesAbout(<<N_main_go>>)) = 1
    /\ LinesAbout(<<N_notes_txt>>) = <<>>
    /\ Len(EmittedForFile(FooPath)) = 2

\* C16's classification of a relative path: the file name ends with one of the
\* test suffixes, or a segment of the path is 'test' or 'tests' in any case
TestClassified(p) ==
    \/ \E suf \in TEST_SUFFIXES :
          /\ Len(suf) <= Len(p[Len(p)])
          /\ SubSeq(p[Len(p)], Len(p[Len(p)]) - Len(suf) + 1, Len(p[Len(p)])) = suf
    \/ \E i \in DOMAIN p : Lower(p[i]) \in { <<116, 101, 115, 116>>, <<116, 101, 115, 116, 115>> }

\* names of files and directories on which the classification is compared
SampleNames ==
    {
      <<116, 101, 115, 116>>,                                         \* test
      <<84, 101, 115, 116, 115>>,                                     \* Tests
      <<84, 69, 83, 84>>,                                             \* TEST
      <<108, 97, 116, 101, 115, 116>>,                                \* latest
      <<115, 114, 99>>,                                               \* src
      <<70, 111, 111, 84, 101, 115, 116, 46, 106, 97, 118, 97>>,      \* FooTest.java
      <<102, 111, 111, 116, 101, 115, 116, 46, 106, 97, 118, 97>>,    \* footest.java
      <<97, 95, 116, 101, 115, 116, 46, 112, 121>>,                   \* a_test.py
      <<116, 101, 115, 116, 115, 46, 112, 121>>,                      \* tests.py
      <<120, 46, 116, 101, 115, 116, 46, 106, 115>>                   \* x.test.js
    }

\* relative paths of one and of two segments over the sample names
SamplePaths == { <<a>> : a \in SampleNames } \cup { <<a, b>> : a, b \in SampleNames }

\* is_test_file and C16's classification agree on the sample paths and on the
\* files of the project
ClassifiedAlike ==
    \A p \in SamplePaths \cup WalkedFiles : is_test_file(p) <=> TestClassified(p)

\* C16: no test-classified file reaches the parser and no entity has a
\* test-classified file_path; is_test_file classifies a path exactly when its
\* name ends with a test suffix or one of its segments is 'test' or 'tests' in
\* any case.
C16_TestFilesExcluded ==
    /\ ClassifiedAlike
    /\ \A k \in DOMAIN log : log[k].path # <<>> => ~TestClassified(log[k].path)
    /\ \A i \in DOMAIN compiled : ~TestClassified(compiled[i].file_path)
    /\ \A i \in DOMAIN all_chunks :
          /\ ~TestClassified(chunk_trace[i].file_path)
          /\ all_chunks[i].file_path = chunk_trace[i].file_path

\* pkg/FooTest.java and lib/Tests/T.java were handled and nothing was parsed or
\* printed for them, while pkg/G.java beside them gave its entities
C16_Witness ==
    /\ pc = "write"
    /\ Handled(<<N_pkg, N_FooTest_java>>) /\ Handled(TPath)
    /\ TestClassified(<<N_pkg, N_FooTest_java>>) /\ TestClassified(TPath)
    /\ ~EndsWith(N_T_java, <<84, 101, 115, 116, 46, 106, 97, 118, 97>>)      \* Test.java
    /\ LinesAbout(<<N_pkg, N_FooTest_java>>) = <<>> /\ LinesAbout(TPath) = <<>>
    /\ Len(EmittedForFile(GPath)) >= 2

\* where the catalog entry of an entity is in the catalog of its language
EntryIndex(tr) ==
    LET qs == QueriesFor(LangOfPath(tr.file_path))
    IN CHOOSE q \in DOMAIN qs : qs[q].entity_type = tr.entity_type

\* C17: the entities are in discovery order: those of a file visited earlier
\* come before those of a file visited later; within a file those of an
\* earlier catalog entry come before those of a later one; and those of one
\* entry are in the order of its matches.
C17_DiscoveryOrder ==
    /\ \A i \in DOMAIN all_chunks : Handled(chunk_trace[i].file_path)
    /\ \A i, j \in DOMAIN all_chunks :
          i < j =>
            LET a == chunk_trace[i]
                b == chunk_trace[j]
            IN \/ VisitIndex(a.file_path) < VisitIndex(b.file_path)
               \/ /\ a.file_path = b.file_path
                  /\ EntryIndex(a) < EntryIndex(b)
               \/ /\ a.file_path = b.file_path
                  /\ a.entity_type = b.entity_type
                  /\ a.match_index < b.match_index

\* four files gave entities: Foo.java two, of two entries; lib/m.py one;
\* pkg/G.java three, two of them from the two matches of one entry;
\* pkg/.github/E.TS one
C17_Witness ==
    /\ pc = "write"
    /\ env.gmatches = <<G_two, G_name>>
    /\ Len(all_chunks) = 7
    /\ chunk_trace[1].file_path = FooPath /\ chunk_trace[1].entity_type = "CLASS"
    /\ chunk_trace[2].file_path = FooPath /\ chunk_trace[2].entity_type = "METHOD"
    /\ chunk_trace[3].file_path = MPath
    /\ chunk_trace[4].match_index = 1 /\ chunk_trace[5].match_index = 2
    /\ chunk_trace[5].entity_type = "CLASS" /\ chunk_trace[6].entity_type = "METHOD"
    /\ chunk_trace[7].file_path = EPath

\* C18: the grammar cache is populated only by the load step, which runs
\* before the first file is matched; each language's grammar is loaded at most
\* once in a scan; and once matching has started no entry of the cache is
\* added, replaced or removed.
C18_CacheSetBeforeMatching ==
    /\ [](pc = "load" =>
            (LANGUAGES = LoadedNothing /\ visited = <<>> /\ compiled = <<>> /\ all_chunks = <<>>))
    /\ [](\A ext \in ConfigExts : Printed("load_ok", ext) + Printed("load_error", ext) <= 1)
    /\ [](\A ext \in DOMAIN LANGUAGES : Printed("load_ok", ext) = 1)
    /\ [][(pc # "load" /\ run' = run) => LANGUAGES' = LANGUAGES]_vars

\* the four grammars were loaded once each, files were matched with them, and
\* the cache is as the load step left it
C18_Witness ==
    /\ pc = "write"
    /\ DOMAIN LANGUAGES = WantedExts
    /\ \A ext \in WantedExts : Printed("load_ok", ext) = 1
    /\ \E i \in DOMAIN compiled : compiled[i].lang = "java"
    /\ \E i \in DOMAIN compiled : compiled[i].lang = "python"
    /\ all_chunks # <<>>

\* a is the beginning of b
IsPrefix(a, b) == Len(a) <= Len(b) /\ SubSeq(b, 1, Len(a)) = a

\* this run has written its document
Wrote == \E k \in DOMAIN log : log[k].kind = "wrote"

\* C19: the entity list is append-only: every step of a scan leaves the
\* entities it holds where they are and as they are, so the list is at every
\* step a prefix of the final list, which is the list that is written.
C19_AppendOnly ==
    /\ [][run' = run => IsPrefix(all_chunks, all_chunks')]_vars
    /\ []((pc = "done" /\ Wrote) => output = <<output_data(all_chunks)>>)

\* the list grew file by file to seven entities and was written
C19_Witness ==
    /\ pc = "done"
    /\ Wrote
    /\ Len(all_chunks) = 7
    /\ Len(output[1].code_chunks) = 7

-----------------------------------------------------------------------------
(* One entity for each match, checked under Spec *)

\* the positions, in the match list of a catalog entry on a file, of the
\* matches from which an entity was emitted
EmittedIndexes(path, entity_type) ==
    { chunk_trace[i].match_index :
        i \in { j \in DOMAIN chunk_trace : /\ chunk_trace[j].file_path = path
                                           /\ chunk_trace[j].entity_type = entity_type } }

\* the positions of the matches that bind at least one node
BindingIndexes(path, entity_type) ==
    { k \in DOMAIN MatchesOf(path, entity_type) : NonEmptyMatch(MatchesOf(path, entity_type)[k]) }

-----------------------------------------------------------------------------
(* Compilation of the patterns, checked under SpecFaults *)

\* the calls of ts_lang_obj.query for one definition of one language
CompilationsOf(lang, entity_type) ==
    { i \in DOMAIN compiled : /\ compiled[i].lang = lang
                              /\ compiled[i].entity_type = entity_type }

\* C21: the pattern of an entity definition of a language is compiled once and
\* the compiled pattern is reused: however many files of the language the scan
\* parses, each definition's pattern has been compiled at most once.
C21_CompiledOnce ==
    \A lang \in DOMAIN AST_QUERIES :
        \A k \in DOMAIN AST_QUERIES[lang] :
            Cardinality(CompilationsOf(lang, AST_QUERIES[lang][k].entity_type)) <= 1

-----------------------------------------------------------------------------
(* Pruning of the walk, checked under SpecFaults *)

\* a directory name the walk is to stay out of: one of SKIP_DIRS, or a name
\* that starts with a dot and is neither .github nor .gitlab-ci
SkipNamed(d) ==
    \/ d \in SKIP_DIRS
    \/ /\ d # <<>>
       /\ Head(d) = DOT
       /\ d # N_github
       /\ d # <<46, 103, 105, 116, 108, 97, 98, 45, 99, 105>>       \* .gitlab-ci

\* no directory on the way to the path is one the walk stays out of
ClearOfSkipped(dir) == \A i \in DOMAIN dir : ~SkipNamed(dir[i])

\* the directory a file is in
DirOf(path) == SubSeq(path, 1, Len(path) - 1)

\* C22: the scanner never descends into a directory whose name is in SKIP_DIRS
\* or starts with '.' (other than .github and .gitlab-ci): no such directory
\* is walked or waits to be walked, no file under one is handled, and no
\* emitted entity has such a directory among the segments of its file_path.
C22_SkippedDirsNotEntered ==
    /\ ClearOfSkipped(cur_dir)
    /\ \A i \in DOMAIN walk_stack : ClearOfSkipped(walk_stack[i])
    /\ \A i \in DOMAIN visited : ClearOfSkipped(DirOf(visited[i]))
    /\ \A i \in DOMAIN chunk_trace : ClearOfSkipped(DirOf(chunk_trace[i].file_path))

\* the scan is over: the file under pkg/.github was handled and gave an
\* entity, no file under node_modules or pkg/.cache was handled, although both
\* hold a file with a class in a loaded language, and pkg/G.java next to them
\* gave its entities
C22_Witness ==
    /\ pc = "done"
    /\ Ext_java \in DOMAIN LANGUAGES
    /\ Ext_js \in DOMAIN LANGUAGES
    /\ \E i \in DOMAIN visited : visited[i] = EPath
    /\ \E i \in DOMAIN chunk_trace : chunk_trace[i].file_path = EPath
    /\ \A i \in DOMAIN visited : visited[i] \notin {KPath, <<N_node_modules, N_x_js>>}
    /\ \E i \in DOMAIN chunk_trace : chunk_trace[i].file_path = GPath
    /\ TreeOf(KPath) # <<>>
    /\ TreeOf(<<N_node_modules, N_x_js>>) # <<>>

-----------------------------------------------------------------------------
(* An error in the middle of a definition's matches, checked under SpecRaising *)

\* the positions of the matches of a definition on a file that come before the
\* first match the loop body raises on
BeforeRaise(path, entity_type) ==
    { k \in DOMAIN MatchesOf(path, entity_type) :
        \A j \in 1..k : ~Raises(MatchesOf(path, entity_type)[j]) }

\* the loop body raises on some match of the definition on the file
RaisesOn(path, entity_type) ==
    \E k \in DOMAIN MatchesOf(path, entity_type) : Raises(MatchesOf(path, entity_type)[k])

\* the entity types whose patterns were compiled on a file, in order
CompiledOn(path) ==
    LET on == SelectSeq(compiled, LAMBDA c : c.file_path = path)
    IN [i \in DOMAIN on |-> on[i].entity_type]

\* the entity types of a language's catalog, in order
CatalogTypes(lang) == [i \in DOMAIN QueriesFor(lang) |-> QueriesFor(lang)[i].entity_type]

\* the except clause has printed its error for the definition on the file
ErrorPrinted(path, entity_type) ==
    \E k \in DOMAIN log : /\ log[k].kind = "query_error"
                          /\ log[k].path = path
                          /\ log[k].entity_type = entity_type

\* C25: when the processing of a definition on a file raises after some of its
\* matches have produced entities, those entities stay in the result, the
\* matches from the raising one on give none, the error is printed, and every
\* definition of the catalog, the following ones included, is still processed
\* on that file and emits its entities.
C25_RaiseKeepsEarlierEntities ==
    /\ \A i \in DOMAIN compiled :
          compiled[i].ok =>
              LET path == compiled[i].file_path
                  type == compiled[i].entity_type
                  kept == { k \in BeforeRaise(path, type) :
                              NonEmptyMatch(MatchesOf(path, type)[k]) }
              IN /\ EmittedIndexes(path, type) = kept
                 /\ Len(EmittedFor(path, type)) = Cardinality(kept)
                 /\ ErrorPrinted(path, type) <=> RaisesOn(path, type)
    /\ \A i \in DOMAIN compiled :
          CompiledOn(compiled[i].file_path) = CatalogTypes(compiled[i].lang)

\* the scan is over: on pkg/G.java the body raised on the second of three class
\* matches; the first gave the one CLASS entity of the file, the error was
\* printed, and the METHOD definition that follows in the catalog gave its entity
C25_Witness ==
    /\ pc = "done"
    /\ env.gmatches = <<G_name, G_list, G_name>>
    /\ EmittedIndexes(GPath, "CLASS") = {1}
    /\ ErrorPrinted(GPath, "CLASS")
    /\ Len(EmittedFor(GPath, "METHOD")) = 1
    /\ CompiledOn(GPath) = <<"CLASS", "INTERFACE", "METHOD", "CONSTRUCTOR", "ENUM">>

-----------------------------------------------------------------------------
(* The kinds of the entities of a file, checked under SpecFaults *)

\* the language the lower-cased extension of a file resolves to
ResolvedLang(path) == ConfigLang(Lower(Suffix(path[Len(path)])))

\* the entity kinds listed in the catalog of a language
KindsOf(lang) == { AST_QUERIES[lang][i].entity_type : i \in DOMAIN AST_QUERIES[lang] }

\* the kinds that are in the catalog of some other language and not in lang's
ForeignKinds(lang) ==
    UNION { KindsOf(other) : other \in DOMAIN AST_QUERIES \ {lang} } \ KindsOf(lang)

\* C26: the entity_type of every emitted entity is one of the kinds of the
\* catalog of the language that the lower-cased extension of its file resolves
\* to; no file yields an entity of a kind that belongs only to the catalog of
\* another language.
C26_KindOfOwnCatalog ==
    \A i \in DOMAIN all_chunks :
        LET path == chunk_trace[i].file_path
        IN /\ Lower(Suffix(path[Len(path)])) \in ConfigExts
           /\ all_chunks[i].entity_type \in KindsOf(ResolvedLang(path))
           /\ all_chunks[i].entity_type \notin ForeignKinds(ResolvedLang(path))

\* the scan is over: pkg/.github/E.TS, whose extension is in upper case, gave a
\* FUNCTION, a kind of typescript, and nothing for its enum, which only the
\* catalog of java has a pattern for; Foo.java gave a METHOD and lib/m.py a
\* FUNCTION
C26_Witness ==
    /\ pc = "done"
    /\ Len(EmittedForFile(EPath)) = 1
    /\ EmittedForFile(EPath)[1].chunk.entity_type = "FUNCTION"
    /\ "ENUM" \in ForeignKinds(ResolvedLang(EPath))
    /\ \E i \in DOMAIN all_chunks :
          chunk_trace[i].file_path = FooPath /\ all_chunks[i].entity_type = "METHOD"
    /\ \E i \in DOMAIN all_chunks :
          chunk_trace[i].file_path = MPath /\ all_chunks[i].entity_type = "FUNCTION"

-----------------------------------------------------------------------------
(* The scan without the grammar artifact, checked under FairSpec *)

\* parser.parse was reached for no file: no "AST Parsing" line was printed,
\* no warning of parse_file_with_tree_sitter, and no pattern was compiled
ParserNeverInvoked ==
    /\ compiled = <<>>
    /\ \A k \in DOMAIN log :
          log[k].kind \notin {"ast_parsing", "no_grammar_object", "critical",
                              "read_error", "query_error"}

\* C27: when the compiled grammar artifact is missing, no grammar loads and
\* the parser is never invoked; the scan still walks the whole tree, handling
\* every file of it, reaches its end, and the document it writes has an empty
\* code_chunks list.
C27_MissingArtifactScan ==
    /\ [](~env.grammar_exists =>
            /\ LANGUAGES = LoadedNothing
            /\ ParserNeverInvoked
            /\ all_chunks = <<>>)
    /\ []((~env.grammar_exists /\ pc \in {"write", "done"}) =>
            \A p \in WalkedFiles : Handled(p))
    /\ []((~env.grammar_exists /\ pc = "done" /\ Wrote) =>
            /\ output # <<>>
            /\ output[1].code_chunks = <<>>)
    /\ (pc = "load" /\ ~env.grammar_exists) ~> (pc = "done")

\* the artifact is missing and the scan is over: the loader said so, every file
\* of the walked directories was handled, the last of them under pkg/.github
\* or lib/Tests, and the document was written with no entity in it
C27_Witness ==
    /\ pc = "done"
    /\ ~env.grammar_exists
    /\ \E k \in DOMAIN log : log[k].kind = "grammar_missing"
    /\ \E k \in DOMAIN log : log[k].kind = "warn_incomplete"
    /\ \A p \in WalkedFiles : Handled(p)
    /\ Len(visited) = Cardinality(WalkedFiles)
    /\ Handled(FooPath) /\ Handled(GPath) /\ Handled(MPath) /\ Handled(EPath)
    /\ Wrote
    /\ output = <<output_data(<<>>)>>

-----------------------------------------------------------------------------
(* The text scanner src/scan_project_gemini2.py: the ignore rules, the       *)
(* content rule and the loop over the files of a directory, under the        *)
(* default configuration of main.                                            *)

\* DEFAULT_IGNORE_FILES, lines 61-70
DEFAULT_IGNORE_FILES ==
    { <<42, 46, 97>>,   \* *.a
      <<42, 46, 98, 97, 107>>,   \* *.bak
      <<42, 46, 99, 108, 97, 115, 115>>,   \* *.class
      <<42, 46, 100, 105, 115, 116, 45, 105, 110, 102, 111>>,   \* *.dist-info
      <<42, 46, 100, 108, 108>>,   \* *.dll
      <<42, 46, 101, 97, 114>>,   \* *.ear
      <<42, 46, 101, 103, 103, 45, 105, 110, 102, 111>>,   \* *.egg-info
      <<42, 46, 101, 120, 101>>,   \* *.exe
      <<42, 46, 106, 97, 114>>,   \* *.jar
      <<42, 46, 108, 105, 98>>,   \* *.lib
      <<42, 46, 108, 111, 103>>,   \* *.log
      <<42, 46, 109, 97, 112>>,   \* *.map
      <<42, 46, 109, 105, 110, 46, 99, 115, 115>>,   \* *.min.css
      <<42, 46, 109, 105, 110, 46, 106, 115>>,   \* *.min.js
      <<42, 46, 111>>,   \* *.o
      <<42, 46, 111, 98, 106>>,   \* *.obj
      <<42, 46, 111, 108, 100>>,   \* *.old
      <<42, 46, 112, 121, 99>>,   \* *.pyc
      <<42, 46, 112, 121, 111>>,   \* *.pyo
      <<42, 46, 115, 111>>,   \* *.so
      <<42, 46, 115, 119, 111>>,   \* *.swo
      <<42, 46, 115, 119, 112>>,   \* *.swp
      <<42, 46, 116, 109, 112>>,   \* *.tmp
      <<42, 46, 119, 97, 114>>,   \* *.war
      <<71, 101, 109, 102, 105, 108, 101, 46, 108, 111, 99, 107>>,   \* Gemfile.lock
      <<99, 111, 109, 112, 111, 115, 101, 114, 46, 108, 111, 99, 107>>,   \* composer.lock
      <<112, 97, 99, 107, 97, 103, 101, 45, 108, 111, 99, 107, 46, 106, 115, 111, 110>>,   \* package-lock.json
      <<112, 111, 101, 116, 114, 121, 46, 108, 111, 99, 107>>,   \* poetry.lock
      <<121, 97, 114, 110, 46, 108, 111, 99, 107>> }   \* yarn.lock

\* DEFAULT_FILES_WITH_CONTENT_BY_NAME, lines 33-40
DEFAULT_FILES_WITH_CONTENT_BY_NAME ==
    { <<46, 101, 110, 118, 46, 101, 120, 97, 109, 112, 108, 101>>,   \* .env.example
      <<46, 103, 105, 116, 105, 103, 110, 111, 114, 101>>,   \* .gitignore
      <<67, 79, 78, 84, 82, 73, 66, 85, 84, 73, 78, 71, 46, 109, 100>>,   \* CONTRIBUTING.md
      <<68, 111, 99, 107, 101, 114, 102, 105, 108, 101>>,   \* Dockerfile
      <<76, 73, 67, 69, 78, 83, 69>>,   \* LICENSE
      <<80, 105, 112, 102, 105, 108, 101>>,   \* Pipfile
      <<80, 114, 111, 99, 102, 105, 108, 101>>,   \* Procfile
      <<82, 69, 65, 68, 77, 69, 46, 109, 100>>,   \* README.md
      <<97, 112, 112, 108, 105, 99, 97, 116, 105, 111, 110, 46, 112, 114, 111, 112, 101, 114, 116, 105, 101, 115>>,   \* application.properties
      <<97, 112, 112, 108, 105, 99, 97, 116, 105, 111, 110, 46, 121, 97, 109, 108>>,   \* application.yaml
      <<97, 112, 112, 108, 105, 99, 97, 116, 105, 111, 110, 46, 121, 109, 108>>,   \* application.yml
      <<98, 97, 98, 101, 108, 46, 99, 111, 110, 102, 105, 103, 46, 106, 115>>,   \* babel.config.js
      <<98, 117, 105, 108, 100, 46, 103, 114, 97, 100, 108, 101>>,   \* build.gradle
      <<100, 111, 99, 107, 101, 114, 45, 99, 111, 109, 112, 111, 115, 101, 46, 121, 97, 109, 108>>,   \* docker-compose.yaml
      <<100, 111, 99, 107, 101, 114, 45, 99, 111, 109, 112, 111, 115, 101, 46, 121, 109, 108>>,   \* docker-compose.yml
      <<112, 97, 99, 107, 97, 103, 101, 46, 106, 115, 111, 110>>,   \* package.json
      <<112, 111, 109, 46, 120, 109, 108>>,   \* pom.xml
      <<114, 101, 113, 117, 105, 114, 101, 109, 101, 110, 116, 115, 46, 116, 120, 116>>,   \* requirements.txt
      <<115, 101, 116, 116, 105, 110, 103, 115, 46, 103, 114, 97, 100, 108, 101>>,   \* settings.gradle
      <<115, 101, 116, 116, 105, 110, 103, 115, 46, 120, 109, 108>>,   \* settings.xml
      <<116, 115, 99, 111, 110, 102, 105, 103, 46, 106, 115, 111, 110>>,   \* tsconfig.json
      <<118, 105, 116, 101, 46, 99, 111, 110, 102, 105, 103, 46, 106, 115>>,   \* vite.config.js
      <<119, 101, 98, 112, 97, 99, 107, 46, 99, 111, 110, 102, 105, 103, 46, 106, 115>> }   \* webpack.config.js

\* DEFAULT_FILES_WITH_CONTENT_BY_EXT, lines 42-51
DEFAULT_FILES_WITH_CONTENT_BY_EXT ==
    { <<46, 98, 97, 115, 104>>,   \* .bash
      <<46, 99>>,   \* .c
      <<46, 99, 102, 103>>,   \* .cfg
      <<46, 99, 111, 110, 102>>,   \* .conf
      <<46, 99, 112, 112>>,   \* .cpp
      <<46, 99, 115>>,   \* .cs
      <<46, 99, 115, 115>>,   \* .css
      <<46, 103, 111>>,   \* .go
      <<46, 104>>,   \* .h
      <<46, 104, 112, 112>>,   \* .hpp
      <<46, 104, 116, 109>>,   \* .htm
      <<46, 104, 116, 109, 108>>,   \* .html
      <<46, 105, 110, 105>>,   \* .ini
      <<46, 106, 97, 118, 97>>,   \* .java
      <<46, 106, 115>>,   \* .js
      <<46, 106, 115, 111, 110>>,   \* .json
      <<46, 106, 115, 120>>,   \* .jsx
      <<46, 107, 116>>,   \* .kt
      <<46, 108, 101, 115, 115>>,   \* .less
      <<46, 109, 100>>,   \* .md
      <<46, 112, 104, 112>>,   \* .php
      <<46, 112, 115, 49>>,   \* .ps1
      <<46, 112, 121>>,   \* .py
      <<46, 114, 98>>,   \* .rb
      <<46, 114, 115>>,   \* .rs
      <<46, 114, 115, 116>>,   \* .rst
      <<46, 115, 99, 97, 108, 97>>,   \* .scala
      <<46, 115, 99, 115, 115>>,   \* .scss
      <<46, 115, 104>>,   \* .sh
      <<46, 115, 113, 108>>,   \* .sql
      <<46, 115, 118, 101, 108, 116, 101>>,   \* .svelte
      <<46, 115, 119, 105, 102, 116>>,   \* .swift
      <<46, 116, 111, 109, 108>>,   \* .toml
      <<46, 116, 115>>,   \* .ts
      <<46, 116, 115, 120>>,   \* .tsx
      <<46, 118, 117, 101>>,   \* .vue
      <<46, 120, 109, 108>>,   \* .xml
      <<46, 121, 97, 109, 108>>,   \* .yaml
      <<46, 121, 109, 108>> }   \* .yml

\* args after main has parsed an empty command line and normalised the name
\* sets, lines 444-447: the entries of every set are lower-cased and nothing
\* else is done to them; --ignore-file-patterns defaults to no pattern
DefaultArgs ==
    [include_names |-> { Lower(n) : n \in DEFAULT_FILES_WITH_CONTENT_BY_NAME },
     include_exts |-> { IF StartsWith(x, <<DOT>>) THEN Lower(x) ELSE <<DOT>> \o Lower(x) :
                          x \in DEFAULT_FILES_WITH_CONTENT_BY_EXT },
     ignore_files |-> { Lower(n) : n \in DEFAULT_IGNORE_FILES },
     ignore_file_patterns |-> {}]

\* re.match(pattern, string) for a pattern of plain characters: the string
\* starts with them
re_match(pattern, string) == StartsWith(string, pattern)

\* is_ignored for a path that is a file, lines 224-231
is_ignored_file(path_name, args) ==
    \/ StartsWith(path_name, <<115, 99, 97, 110, 95, 112, 114, 111, 106, 101, 99, 116>>)       \* scan_project
    \/ path_name \in args.ignore_files
    \/ \E pattern \in args.ignore_file_patterns : re_match(pattern, path_name)

\* should_include_content, lines 214-219
should_include_content(name, args) ==
    \/ Lower(name) \in args.include_names
    \/ Lower(Suffix(name)) \in args.include_exts
    \/ /\ <<100, 111, 99, 107, 101, 114, 102, 105, 108, 101>> \in args.include_names     \* dockerfile
       /\ Lower(name) = <<100, 111, 99, 107, 101, 114, 102, 105, 108, 101>>

\* an element of project_files_structure, by what it says of which file
Line(kind, filename) == [kind |-> kind, filename |-> filename]

\* lines 305-333: one pass of the loop over the files of a directory: what it
\* appends to project_files_structure; safe_read_file returns a text in every
\* case, so the content block is always the one of lines 321-323
FileLines(filename, args) ==
    IF is_ignored_file(filename, args) THEN <<Line("ignored", filename)>>
    ELSE IF should_include_content(filename, args)
    THEN <<Line("listed", filename), Line("content", filename)>>
    ELSE <<Line("listed", filename)>>

T_app_log == <<97, 112, 112, 46, 108, 111, 103>>   \* app.log
T_mod_pyc == <<109, 111, 100, 46, 112, 121, 99>>   \* mod.pyc
T_x_min_js == <<120, 46, 109, 105, 110, 46, 106, 115>>   \* x.min.js
T_package_lock == <<112, 97, 99, 107, 97, 103, 101, 45, 108, 111, 99, 107, 46, 106, 115, 111, 110>>   \* package-lock.json
T_Gemfile_lock == <<71, 101, 109, 102, 105, 108, 101, 46, 108, 111, 99, 107>>   \* Gemfile.lock
T_gemfile_lock == <<103, 101, 109, 102, 105, 108, 101, 46, 108, 111, 99, 107>>   \* gemfile.lock
T_scan_project_py == <<115, 99, 97, 110, 95, 112, 114, 111, 106, 101, 99, 116, 95, 120, 46, 112, 121>>   \* scan_project_x.py
T_Main_java == <<77, 97, 105, 110, 46, 106, 97, 118, 97>>   \* Main.java
T_star_log == <<42, 46, 108, 111, 103>>   \* *.log
T_notes_txt == <<110, 111, 116, 101, 115, 46, 116, 120, 116>>   \* notes.txt
T_README_md == <<82, 69, 65, 68, 77, 69, 46, 109, 100>>   \* README.md

\* the file names a directory of the project is made of
TextNames ==
    { T_app_log, T_mod_pyc, T_x_min_js, T_package_lock, T_Gemfile_lock, T_gemfile_lock,
      T_scan_project_py, T_Main_java, T_star_log, T_notes_txt, T_README_md }

MaxFiles == 2      \* files in the directory the text scanner walks

\* the directories the text scanner can be given: up to MaxFiles files
TextDirs == { S \in SUBSET TextNames : Cardinality(S) <= MaxFiles }

InitText ==
    /\ IdleScan
    /\ IdleBuilder
    /\ IdleStats
    /\ IdleRead
    /\ IdleJson
    /\ t_pc = "walk"
    /\ t_files \in TextDirs
    /\ t_pending = <<>>
    /\ t_structure = <<>>

\* lines 283-302: os.walk yields the directory; its files are sorted and the
\* line of the directory is appended
TextEnterDir ==
    /\ t_pc = "walk"
    /\ t_pending' = Sorted(t_files)
    /\ t_structure' = Append(t_structure, Line("directory", <<>>))
    /\ t_pc' = "files"
    /\ UNCHANGED <<t_files, scan_vars, build_vars, read_vars, json_vars, stats_vars>>

\* lines 304-333: one pass of the loop over the files
TextVisitFile ==
    /\ t_pc = "files"
    /\ t_pending # <<>>
    /\ t_structure' = t_structure \o FileLines(Head(t_pending), DefaultArgs)
    /\ t_pending' = Tail(t_pending)
    /\ UNCHANGED <<t_pc, t_files, scan_vars, build_vars, read_vars, json_vars, stats_vars>>

\* lines 335-336: the loop is over; a directory with no scannable file and no
\* subdirectory gets a note
TextLeaveDir ==
    /\ t_pc = "files"
    /\ t_pending = <<>>
    /\ t_structure' =
          IF \E i \in DOMAIN t_structure : t_structure[i].kind = "listed"
          THEN t_structure
          ELSE Append(t_structure, Line("nothing_scannable", <<>>))
    /\ t_pc' = "done"
    /\ UNCHANGED <<t_files, t_pending, scan_vars, build_vars, read_vars, json_vars, stats_vars>>

NextText == TextEnterDir \/ TextVisitFile \/ TextLeaveDir

SpecText == InitText /\ [][NextText]_vars

\* the files the loop has handled
TextHandled == t_files \ { t_pending[i] : i \in DOMAIN t_pending }

\* the loop has appended a line of this kind for the file
HasLine(kind, filename) ==
    \E i \in DOMAIN t_structure : t_structure[i] = Line(kind, filename)

STAR == 42      \* '*'

\* a name matches an ignore entry read as a shell pattern: the entries are
\* either plain names or a star followed by the end of the name
GlobMatch(entry, name) ==
    IF entry # <<>> /\ Head(entry) = STAR THEN EndsWith(name, Tail(entry))
    ELSE name = entry

\* the name matches one of the entries of DEFAULT_IGNORE_FILES
MatchesDefaultEntry(name) == \E entry \in DEFAULT_IGNORE_FILES : GlobMatch(entry, name)

\* C23: under the default configuration every file whose name matches one of
\* the default ignore entries (a name ending in .log, .pyc or .min.js, the
\* exact name package-lock.json) is marked as ignored and its content is not
\* included in the output.
C23_DefaultEntriesIgnored ==
    t_pc \in {"files", "done"} =>
        \A name \in TextHandled :
            MatchesDefaultEntry(name) =>
                /\ HasLine("ignored", name)
                /\ ~HasLine("listed", name)
                /\ ~HasLine("content", name)

-----------------------------------------------------------------------------
(* safe_read_file of src/scan_project_gemini2.py, lines 74-143, with the     *)
(* default head_ratio 0.7 and tail_ratio 0.2.  A file is its size in bytes   *)
(* and the number of its lines; its lines are told apart by their numbers.   *)

MaxContentLines == 10      \* the greatest max_lines a call is given

\* a part of the returned text: a line of the file (a: its number), the bytes
\* read under the size limit (a: how many), or one of the messages (a, b, c:
\* the numbers it prints)
Part(kind, a, b, c) == [kind |-> kind, a |-> a, b |-> b, c |-> c]

FileLine(n) == Part("line", n, 0, 0)

\* lines_read_up_to_max[lo:hi] for 0 <= lo, as parts
ReadLines(lo, hi) == [i \in 1..(IF hi > lo THEN hi - lo ELSE 0) |-> FileLine(lo + i)]

\* lines 111-129 without the case of max_lines <= 5
HeadTailByRatio(max_lines) ==
    LET head0 == (7 * max_lines) \div 10
        tail0 == (2 * max_lines) \div 10
        head1 == IF head0 = 0 /\ max_lines > 0 THEN 1 ELSE head0
        head2 == IF head1 + tail0 > max_lines
                 THEN (IF tail0 > 0
                       THEN (IF max_lines - tail0 < 0 THEN 0 ELSE max_lines - tail0)
                       ELSE max_lines)
                 ELSE head1
        head3 == IF head2 < 0 THEN 0 ELSE head2
        tail3 == IF tail0 < 0 THEN 0 ELSE tail0
    IN [head_count |-> IF head3 = 0 /\ tail3 = 0 /\ max_lines > 0 THEN 1 ELSE head3,
        tail_count |-> tail3]

\* lines 111-129: head_count and tail_count.  int(max_lines * 0.7) and
\* int(max_lines * 0.2) are the integer parts of 7 * max_lines / 10 and of
\* 2 * max_lines / 10 for every max_lines from 0 to 89.
HeadTail(max_lines) ==
    LET head0 == (7 * max_lines) \div 10                                 \* line 111
        tail0 == (2 * max_lines) \div 10                                 \* line 112
        head1 == IF max_lines <= 5 THEN max_lines                        \* lines 114-118
                 ELSE IF head0 = 0 /\ max_lines > 0 THEN 1 ELSE head0
        tail1 == IF max_lines <= 5 THEN 0 ELSE tail0
        head2 == IF head1 + tail1 > max_lines                            \* lines 120-125
                 THEN (IF tail1 > 0
                       THEN (IF max_lines - tail1 < 0 THEN 0 ELSE max_lines - tail1)
                       ELSE max_lines)
                 ELSE head1
        head3 == IF head2 < 0 THEN 0 ELSE head2                          \* line 127
        tail3 == IF tail1 < 0 THEN 0 ELSE tail1                          \* line 128
    IN [head_count |-> IF head3 = 0 /\ tail3 = 0 /\ max_lines > 0 THEN 1 ELSE head3,
        tail_count |-> tail3]

Returned(content, is_truncated) == [content |-> content, is_truncated |-> is_truncated]

\* safe_read_file; call.raises: stat or open raises
safe_read_file(call) ==
    IF call.raises THEN Returned(<<Part("error", 0, 0, 0)>>, FALSE)                 \* line 142
    ELSE IF call.size = 0 THEN Returned(<<Part("empty_file", 0, 0, 0)>>, FALSE)     \* line 83
    ELSE IF call.size > call.max_size_bytes                                         \* lines 85-88
    THEN Returned(<<Part("read", call.max_size_bytes, 0, 0),
                    Part("size_message", call.max_size_bytes, 0, 0)>>, TRUE)
    ELSE LET read == IF call.nlines < call.max_lines THEN call.nlines               \* lines 93-99
                     ELSE IF call.max_lines < 0 THEN 0 ELSE call.max_lines
             is_longer_than_max_lines == call.nlines > call.max_lines
             c == HeadTail(call.max_lines)
         IN IF read = 0 THEN Returned(<<Part("empty_or_error", 0, 0, 0)>>, FALSE)   \* line 102
            ELSE IF is_longer_than_max_lines
            THEN Returned((IF c.head_count > 0 THEN ReadLines(0, c.head_count) ELSE <<>>)
                          \o <<Part("message", c.head_count + c.tail_count,
                                    c.head_count, c.tail_count)>>
                          \o (IF c.tail_count > 0 /\ read > c.head_count
                              THEN ReadLines(read - c.tail_count, read)
                              ELSE <<>>),
                          TRUE)                                                     \* lines 130-139
            ELSE Returned(ReadLines(0, read), FALSE)                                \* line 141

NotRead == <<>>

\* the calls: a file of up to MaxContentLines + 2 lines, each of one byte at
\* least, or with bytes that decode to no line at all, and limits around them
ReadCalls ==
    { c \in [size : 0..(MaxContentLines + 2),
             nlines : 0..(MaxContentLines + 2),
             max_size_bytes : {MaxContentLines, MaxContentLines + 2},
             max_lines : 0..MaxContentLines,
             raises : BOOLEAN] :
        /\ c.nlines <= c.size
        /\ (c.raises => c.size = 0) }

InitRead ==
    /\ IdleScan
    /\ IdleBuilder
    /\ IdleStats
    /\ IdleText
    /\ IdleJson
    /\ r_call \in ReadCalls
    /\ r_out = NotRead

\* the call is made
ReadFile ==
    /\ r_out = NotRead
    /\ r_out' = <<safe_read_file(r_call)>>
    /\ UNCHANGED <<r_call, scan_vars, build_vars, text_vars, json_vars, stats_vars>>

NextRead == ReadFile

SpecRead == InitRead /\ [][NextRead]_vars

\* the file of the call is not empty, within the size limit, readable, and has
\* more than max_lines lines, for a max_lines of 1 at least
LongFileRead ==
    /\ r_out # NotRead
    /\ ~r_call.raises
    /\ r_call.size > 0
    /\ r_call.size <= r_call.max_size_bytes
    /\ r_call.max_lines >= 1
    /\ r_call.nlines > r_call.max_lines

\* C24: for every max_lines >= 1 and every non-empty file within the size
\* limit that has more than max_lines lines, safe_read_file reports truncation
\* and returns the first head_count lines, then its note, then the last
\* tail_count lines of the first max_lines lines of the file, where
\* head_count >= 1, tail_count >= 0, head_count + tail_count <= max_lines, so
\* that head and tail do not overlap, and tail_count = 0 when max_lines <= 5.
C24_HeadAndTailOfFirstLines ==
    LongFileRead =>
        /\ r_out[1].is_truncated
        /\ \E head_count \in 1..r_call.max_lines :
              \E tail_count \in 0..(r_call.max_lines - head_count) :
                  /\ r_call.max_lines <= 5 => tail_count = 0
                  /\ r_out[1].content =
                        [i \in 1..head_count |-> FileLine(i)]
                        \o <<Part("message", head_count + tail_count, head_count, tail_count)>>
                        \o [i \in 1..tail_count |->
                               FileLine(r_call.max_lines - tail_count + i)]

\* a file of twelve lines read with max_lines = 10: lines 1 to 7, the note,
\* and lines 9 and 10
C24_Witness ==
    /\ LongFileRead
    /\ r_call.max_lines = 10
    /\ r_call.nlines = 12
    /\ r_out[1].is_truncated
    /\ Len(r_out[1].content) = 10
    /\ r_out[1].content[7] = FileLine(7)
    /\ r_out[1].content[8] = Part("message", 9, 7, 2)
    /\ r_out[1].content[9] = FileLine(9)
    /\ r_out[1].content[10] = FileLine(10)

-----------------------------------------------------------------------------
(* The nested structure of src/scan_project.py: _add_to_nested_dict, lines   *)
(* 110-122.  A dict is a function from names to values; a value is a dict or *)
(* a str, and isinstance tells them apart.                                   *)

EmptyDict == <<>>

\* what read_file_content returns (lines 172-198): a placeholder, or the text
\* of the file at a path, whole or truncated
Content(kind, of) == [kind |-> kind, of |-> of]
NoContent == Content("none", <<>>)

DictValue(d) == [kind |-> "dict", items |-> d, text |-> NoContent]
StrValue(s) == [kind |-> "str", items |-> EmptyDict, text |-> s]

\* d[key] = value
Put(d, key, value) ==
    [k \in DOMAIN d \cup {key} |-> IF k = key THEN value ELSE d[k]]

\* every directory part is given a new empty dict, whatever it holds
RECURSIVE add_to_fresh_dicts(_, _, _)
add_to_fresh_dicts(nested_dict, path_parts, content) ==
    IF Len(path_parts) = 1 THEN Put(nested_dict, path_parts[1], StrValue(content))
    ELSE Put(nested_dict, Head(path_parts),
             DictValue(add_to_fresh_dicts(EmptyDict, Tail(path_parts), content)))

\* _add_to_nested_dict: the dict after the call.  A part that holds a str, or
\* is not in the dict, is given an empty dict (lines 113-119); then the loop
\* goes down into the dict of the part (line 120); the last part is assigned
\* the content (lines 121-122).
RECURSIVE add_to_nested_dict(_, _, _)
add_to_nested_dict(nested_dict, path_parts, content) ==
    IF Len(path_parts) = 1 THEN Put(nested_dict, path_parts[1], StrValue(content))
    ELSE LET part == Head(path_parts)
             current_level == IF part \in DOMAIN nested_dict /\ nested_dict[part].kind = "dict"
                              THEN nested_dict[part].items
                              ELSE EmptyDict
         IN Put(nested_dict, part,
                DictValue(add_to_nested_dict(current_level, Tail(path_parts), content)))

\* the value found by following the parts of a path from the top: NoValue
\* when a part is missing or a str stands where a dict is needed
NoValue == [kind |-> "none", items |-> EmptyDict, text |-> NoContent]

RECURSIVE Follow(_, _)
Follow(nested_dict, path_parts) ==
    IF Head(path_parts) \notin DOMAIN nested_dict THEN NoValue
    ELSE IF Len(path_parts) = 1 THEN nested_dict[Head(path_parts)]
    ELSE IF nested_dict[Head(path_parts)].kind # "dict" THEN NoValue
    ELSE Follow(nested_dict[Head(path_parts)].items, Tail(path_parts))

MaxParts == 2      \* parts of a relative file path given to _add_to_nested_dict
MaxAdds == 2       \* calls of _add_to_nested_dict

PartA == <<97>>    \* a
PartB == <<98>>    \* b

\* the relative paths and the contents the calls are given
AddPaths == UNION { [1..n -> {PartA, PartB}] : n \in 1..MaxParts }
AddContents == {Content("empty", <<>>), Content("skipped", <<>>)}

InitNested ==
    /\ IdleScan
    /\ IdleBuilder
    /\ IdleStats
    /\ IdleText
    /\ IdleRead
    /\ j_pc = "off"
    /\ j_args = [max_scan_depth |-> 0, max_file_size_kb |-> 0]
    /\ j_stack = <<>>
    /\ j_yielded = {}
    /\ j_dir = <<>>
    /\ j_filenames = <<>>
    /\ j_structure = EmptyDict
    /\ j_added = <<>>

\* line 327: _add_to_nested_dict(project_data["structure"], path_parts, content)
AddFile ==
    /\ Len(j_added) < MaxAdds
    /\ \E path_parts \in AddPaths, content \in AddContents :
          /\ j_structure' = add_to_nested_dict(j_structure, path_parts, content)
          /\ j_added' = Append(j_added, [path_parts |-> path_parts, content |-> content])
    /\ UNCHANGED <<j_pc, j_args, j_stack, j_yielded, j_dir, j_filenames, scan_vars, build_vars, text_vars, read_vars, stats_vars>>

NextNested == AddFile

SpecNested == InitNested /\ [][NextNested]_vars

\* p is a strict prefix of q
StrictPrefix(p, q) == Len(p) < Len(q) /\ SubSeq(q, 1, Len(p)) = p

\* no path of the calls is a strict prefix of another
PrefixFree(added) ==
    \A i, k \in DOMAIN added : ~StrictPrefix(added[i].path_parts, added[k].path_parts)

\* the content stored for a path: the one of the last call with that path
StoredFor(added, path_parts) ==
    added[CHOOSE i \in DOMAIN added :
            /\ added[i].path_parts = path_parts
            /\ \A k \in DOMAIN added : added[k].path_parts = path_parts => k <= i].content

\* C30: after any sequence of calls of _add_to_nested_dict in which no path is
\* a strict prefix of another, every added path is reached by following its
\* parts and holds the content stored for it; and a call never removes or
\* changes what is reached by a different path of such a sequence.
C30_AddedPathsKept ==
    /\ [](PrefixFree(j_added) =>
            \A i \in DOMAIN j_added :
                Follow(j_structure, j_added[i].path_parts) =
                    StrValue(StoredFor(j_added, j_added[i].path_parts)))
    /\ [][(j_added' # j_added /\ PrefixFree(j_added')) =>
            \A i \in DOMAIN j_added :
                j_added[i].path_parts # j_added'[Len(j_added')].path_parts =>
                    Follow(j_structure', j_added[i].path_parts) =
                        Follow(j_structure, j_added[i].path_parts)]_vars

\* two files of one directory were added, a/a and then a/b, and both are found
C30_Witness ==
    /\ Len(j_added) = 2
    /\ j_added[1].path_parts = <<PartA, PartA>>
    /\ j_added[2].path_parts = <<PartA, PartB>>
    /\ PrefixFree(j_added)
    /\ Follow(j_structure, <<PartA, PartA>>) = StrValue(j_added[1].content)
    /\ Follow(j_structure, <<PartA, PartB>>) = StrValue(j_added[2].content)
    /\ j_structure[PartA].kind = "dict"

-----------------------------------------------------------------------------
(* The JSON structure scanner: src/scan_project.py.  Names are sequences of  *)
(* code points and a path is the sequence of its parts below the root.        *)

\* lines 24-50
ESSENTIAL_EXTENSIONS ==
    { <<46, 106, 97, 118, 97>>,   \* .java
      <<46, 107, 116>>,   \* .kt
      <<46, 115, 99, 97, 108, 97>>,   \* .scala
      <<46, 103, 114, 111, 111, 118, 121>>,   \* .groovy
      <<46, 106, 115>>,   \* .js
      <<46, 116, 115>>,   \* .ts
      <<46, 106, 115, 120>>,   \* .jsx
      <<46, 116, 115, 120>>,   \* .tsx
      <<46, 112, 121>>,   \* .py
      <<46, 114, 98>>,   \* .rb
      <<46, 112, 104, 112>>,   \* .php
      <<46, 103, 111>>,   \* .go
      <<46, 114, 115>>,   \* .rs
      <<46, 115, 119, 105, 102, 116>>,   \* .swift
      <<46, 99>>,   \* .c
      <<46, 99, 112, 112>>,   \* .cpp
      <<46, 104>>,   \* .h
      <<46, 99, 115>>,   \* .cs
      <<46, 115, 113, 108>>,   \* .sql
      <<46, 103, 114, 97, 100, 108, 101>>,   \* .gradle
      <<46, 112, 114, 111, 112, 101, 114, 116, 105, 101, 115>>,   \* .properties
      <<46, 121, 109, 108>>,   \* .yml
      <<46, 121, 97, 109, 108>>,   \* .yaml
      <<46, 106, 115, 111, 110>>,   \* .json
      <<46, 120, 109, 108>>,   \* .xml
      <<46, 116, 111, 109, 108>>,   \* .toml
      <<46, 104, 116, 109, 108>>,   \* .html
      <<46, 99, 115, 115>>,   \* .css
      <<46, 115, 99, 115, 115>>,   \* .scss
      <<46, 108, 101, 115, 115>>,   \* .less
      <<46, 109, 100>>,   \* .md
      <<46, 115, 104>>,   \* .sh
      <<46, 98, 97, 115, 104>>,   \* .bash
      <<46, 112, 115, 49>>,   \* .ps1
      <<46, 100, 111, 99, 107, 101, 114, 102, 105, 108, 101>>,   \* .dockerfile
      <<68, 111, 99, 107, 101, 114, 102, 105, 108, 101>>,   \* Dockerfile
      <<46, 116, 102>>,   \* .tf
      <<46, 116, 102, 118, 97, 114, 115>>,   \* .tfvars
      <<46, 103, 105, 116, 105, 103, 110, 111, 114, 101>>,   \* .gitignore
      <<46, 103, 105, 116, 97, 116, 116, 114, 105, 98, 117, 116, 101, 115>>,   \* .gitattributes
      <<46, 116, 120, 116>>,   \* .txt
      <<46, 99, 115, 118>> }   \* .csv

\* lines 54-66
ESSENTIAL_CONFIG_FILES ==
    { <<98, 117, 105, 108, 100, 46, 103, 114, 97, 100, 108, 101>>,   \* build.gradle
      <<115, 101, 116, 116, 105, 110, 103, 115, 46, 103, 114, 97, 100, 108, 101>>,   \* settings.gradle
      <<103, 114, 97, 100, 108, 101, 46, 112, 114, 111, 112, 101, 114, 116, 105, 101, 115>>,   \* gradle.properties
      <<112, 111, 109, 46, 120, 109, 108>>,   \* pom.xml
      <<112, 97, 99, 107, 97, 103, 101, 46, 106, 115, 111, 110>>,   \* package.json
      <<112, 97, 99, 107, 97, 103, 101, 45, 108, 111, 99, 107, 46, 106, 115, 111, 110>>,   \* package-lock.json
      <<121, 97, 114, 110, 46, 108, 111, 99, 107>>,   \* yarn.lock
      <<112, 110, 112, 109, 45, 108, 111, 99, 107, 46, 121, 97, 109, 108>>,   \* pnpm-lock.yaml
      <<116, 115, 99, 111, 110, 102, 105, 103, 46, 106, 115, 111, 110>>,   \* tsconfig.json
      <<119, 101, 98, 112, 97, 99, 107, 46, 99, 111, 110, 102, 105, 103, 46, 106, 115>>,   \* webpack.config.js
      <<98, 97, 98, 101, 108, 46, 99, 111, 110, 102, 105, 103, 46, 106, 115>>,   \* babel.config.js
      <<118, 105, 116, 101, 46, 99, 111, 110, 102, 105, 103, 46, 106, 115>>,   \* vite.config.js
      <<46, 101, 115, 108, 105, 110, 116, 114, 99, 46, 106, 115, 111, 110>>,   \* .eslintrc.json
      <<46, 112, 114, 101, 116, 116, 105, 101, 114, 114, 99, 46, 106, 115, 111, 110>>,   \* .prettierrc.json
      <<97, 112, 112, 108, 105, 99, 97, 116, 105, 111, 110, 46, 112, 114, 111, 112, 101, 114, 116, 105, 101, 115>>,   \* application.properties
      <<97, 112, 112, 108, 105, 99, 97, 116, 105, 111, 110, 46, 121, 109, 108>>,   \* application.yml
      <<97, 112, 112, 108, 105, 99, 97, 116, 105, 111, 110, 46, 121, 97, 109, 108>>,   \* application.yaml
      <<97, 112, 112, 108, 105, 99, 97, 116, 105, 111, 110, 45, 100, 101, 118, 46, 112, 114, 111, 112, 101, 114, 116, 105, 101, 115>>,   \* application-dev.properties
      <<97, 112, 112, 108, 105, 99, 97, 116, 105, 111, 110, 45, 112, 114, 111, 100, 46, 112, 114, 111, 112, 101, 114, 116, 105, 101, 115>>,   \* application-prod.properties
      <<98, 111, 111, 116, 115, 116, 114, 97, 112, 46, 112, 114, 111, 112, 101, 114, 116, 105, 101, 115>>,   \* bootstrap.properties
      <<98, 111, 111, 116, 115, 116, 114, 97, 112, 46, 121, 109, 108>>,   \* bootstrap.yml
      <<100, 111, 99, 107, 101, 114, 45, 99, 111, 109, 112, 111, 115, 101, 46, 121, 109, 108>>,   \* docker-compose.yml
      <<100, 111, 99, 107, 101, 114, 45, 99, 111, 109, 112, 111, 115, 101, 46, 121, 97, 109, 108>>,   \* docker-compose.yaml
      <<68, 111, 99, 107, 101, 114, 102, 105, 108, 101>>,   \* Dockerfile
      <<112, 121, 112, 114, 111, 106, 101, 99, 116, 46, 116, 111, 109, 108>>,   \* pyproject.toml
      <<114, 101, 113, 117, 105, 114, 101, 109, 101, 110, 116, 115, 46, 116, 120, 116>>,   \* requirements.txt
      <<82, 69, 65, 68, 77, 69, 46, 109, 100>>,   \* README.md
      <<67, 79, 78, 84, 82, 73, 66, 85, 84, 73, 78, 71, 46, 77, 68>>,   \* CONTRIBUTING.MD
      <<76, 73, 67, 69, 78, 83, 69>> }   \* LICENSE

\* lines 69-88
SKIP_DIRS_json ==
    { <<46, 103, 105, 116>>,   \* .git
      <<46, 115, 118, 110>>,   \* .svn
      <<46, 104, 103>>,   \* .hg
      <<46, 105, 100, 101, 97>>,   \* .idea
      <<46, 118, 115, 99, 111, 100, 101>>,   \* .vscode
      <<46, 118, 115>>,   \* .vs
      <<110, 98, 112, 114, 111, 106, 101, 99, 116>>,   \* nbproject
      <<46, 112, 114, 111, 106, 101, 99, 116>>,   \* .project
      <<46, 115, 101, 116, 116, 105, 110, 103, 115>>,   \* .settings
      <<116, 97, 114, 103, 101, 116>>,   \* target
      <<98, 117, 105, 108, 100>>,   \* build
      <<100, 105, 115, 116>>,   \* dist
      <<111, 117, 116>>,   \* out
      <<98, 105, 110>>,   \* bin
      <<111, 98, 106>>,   \* obj
      <<114, 101, 108, 101, 97, 115, 101>>,   \* release
      <<99, 111, 118, 101, 114, 97, 103, 101>>,   \* coverage
      <<110, 111, 100, 101, 95, 109, 111, 100, 117, 108, 101, 115>>,   \* node_modules
      <<118, 101, 110, 100, 111, 114>>,   \* vendor
      <<98, 111, 119, 101, 114, 95, 99, 111, 109, 112, 111, 110, 101, 110, 116, 115>>,   \* bower_components
      <<46, 109, 50>>,   \* .m2
      <<118, 101, 110, 118>>,   \* venv
      <<46, 118, 101, 110, 118>>,   \* .venv
      <<101, 110, 118>>,   \* env
      <<46, 101, 110, 118>>,   \* .env
      <<69, 78, 86>>,   \* ENV
      <<95, 95, 112, 121, 99, 97, 99, 104, 101, 95, 95>>,   \* __pycache__
      <<46, 112, 121, 116, 101, 115, 116, 95, 99, 97, 99, 104, 101>>,   \* .pytest_cache
      <<46, 109, 121, 112, 121, 95, 99, 97, 99, 104, 101>>,   \* .mypy_cache
      <<46, 116, 111, 120>>,   \* .tox
      <<108, 111, 103, 115>>,   \* logs
      <<116, 101, 109, 112>>,   \* temp
      <<116, 109, 112>>,   \* tmp
      <<100, 97, 116, 97>>,   \* data
      <<117, 112, 108, 111, 97, 100, 115>>,   \* uploads
      <<46, 68, 83, 95, 83, 116, 111, 114, 101>>,   \* .DS_Store
      <<84, 104, 117, 109, 98, 115, 46, 100, 98>>,   \* Thumbs.db
      <<46, 103, 114, 97, 100, 108, 101>>,   \* .gradle
      <<46, 115, 97, 115, 115, 45, 99, 97, 99, 104, 101>>,   \* .sass-cache
      <<106, 101, 107, 121, 108, 108, 45, 99, 97, 99, 104, 101>> }   \* jekyll-cache

\* lines 91-97
TEST_FILE_PATTERNS ==
    { <<84, 101, 115, 116, 46, 106, 97, 118, 97>>,   \* Test.java
      <<84, 101, 115, 116, 115, 46, 106, 97, 118, 97>>,   \* Tests.java
      <<73, 84, 46, 106, 97, 118, 97>>,   \* IT.java
      <<83, 112, 101, 99, 46, 106, 97, 118, 97>>,   \* Spec.java
      <<46, 116, 101, 115, 116, 46, 106, 115>>,   \* .test.js
      <<46, 115, 112, 101, 99, 46, 106, 115>>,   \* .spec.js
      <<46, 116, 101, 115, 116, 46, 116, 115>>,   \* .test.ts
      <<46, 115, 112, 101, 99, 46, 116, 115>>,   \* .spec.ts
      <<116, 101, 115, 116, 95>>,   \* test_
      <<95, 116, 101, 115, 116, 46, 112, 121>>,   \* _test.py
      <<95, 116, 101, 115, 116, 46, 103, 111>>,   \* _test.go
      <<116, 101, 115, 116, 46, 115, 104>> }   \* test.sh

\* lines 99-108
TEST_FILE_SUFFIXES ==
    { <<84, 101, 115, 116, 46, 106, 97, 118, 97>>,   \* Test.java
      <<84, 101, 115, 116, 115, 46, 106, 97, 118, 97>>,   \* Tests.java
      <<73, 84, 46, 106, 97, 118, 97>>,   \* IT.java
      <<83, 112, 101, 99, 46, 106, 97, 118, 97>>,   \* Spec.java
      <<84, 101, 115, 116, 46, 107, 116>>,   \* Test.kt
      <<84, 101, 115, 116, 115, 46, 107, 116>>,   \* Tests.kt
      <<83, 112, 101, 99, 46, 107, 116>>,   \* Spec.kt
      <<46, 116, 101, 115, 116, 46, 106, 115>>,   \* .test.js
      <<46, 115, 112, 101, 99, 46, 106, 115>>,   \* .spec.js
      <<46, 116, 101, 115, 116, 46, 106, 115, 120>>,   \* .test.jsx
      <<46, 116, 101, 115, 116, 46, 116, 115>>,   \* .test.ts
      <<46, 115, 112, 101, 99, 46, 116, 115>>,   \* .spec.ts
      <<46, 116, 101, 115, 116, 46, 116, 115, 120>>,   \* .test.tsx
      <<95, 116, 101, 115, 116, 46, 112, 121>>,   \* _test.py
      <<95, 115, 112, 101, 99, 46, 114, 98>>,   \* _spec.rb
      <<95, 116, 101, 115, 116, 46, 103, 111>>,   \* _test.go
      <<84, 101, 115, 116, 115, 46, 99, 115>> }   \* Tests.cs

\* str.upper on the ASCII letters
UpperChar(c) == IF c >= 97 /\ c <= 122 THEN c - 32 ELSE c
Upper(s) == [i \in 1..Len(s) |-> UpperChar(s[i])]

\* pattern in string
Contains(string, pattern) ==
    \E i \in 0..(Len(string) - Len(pattern)) : SubSeq(string, i + 1, i + Len(pattern)) = pattern

\* list.index: the first position of x in a list that holds it
IndexOf(list, x) == CHOOSE i \in DOMAIN list : list[i] = x /\ \A k \in 1..(i - 1) : list[k] # x

\* is_skipped_dir, lines 124-128
is_skipped_dir_json(dirname) ==
    IF StartsWith(dirname, <<DOT>>) /\ dirname \notin { <<46, 103, 105, 116, 104, 117, 98>>, <<46, 103, 105, 116, 108, 97, 98, 45, 99, 105>> }
    THEN TRUE
    ELSE dirname \in SKIP_DIRS_json

\* is_test_file, lines 131-150, on the parts of the path below the root
is_test_file_json(file_path) ==
    LET filename == file_path[Len(file_path)]
        parts == [i \in DOMAIN file_path |-> Lower(file_path[i])]
        has(x) == \E i \in DOMAIN parts : parts[i] = x
    IN IF \E pattern \in TEST_FILE_PATTERNS : Contains(filename, pattern) THEN TRUE
       ELSE IF \E suffix \in TEST_FILE_SUFFIXES : EndsWith(filename, suffix) THEN TRUE
       ELSE IF has(<<116, 101, 115, 116>>) \/ has(<<116, 101, 115, 116, 115>>)
            THEN IF ~has(<<115, 114, 99>>) THEN FALSE
                 ELSE LET src_index == IndexOf(parts, <<115, 114, 99>>)
                          test_index == IF has(<<116, 101, 115, 116>>) THEN IndexOf(parts, <<116, 101, 115, 116>>)
                                        ELSE IndexOf(parts, <<116, 101, 115, 116, 115>>)
                      IN src_index < test_index
       ELSE FALSE

\* is_essential_file, lines 153-170; every path of the listing is a file
is_essential_file(file_path, script_full_path) ==
    LET filename == file_path[Len(file_path)]
        file_ext == Lower(Suffix(filename))
    IN IF file_path = script_full_path THEN FALSE
       ELSE IF filename \in ESSENTIAL_CONFIG_FILES THEN TRUE
       ELSE IF Upper(filename) \in { <<82, 69, 65, 68, 77, 69, 46, 77, 68>>, <<76, 73, 67, 69, 78, 83, 69>>, <<67, 79, 78, 84, 82, 73, 66, 85, 84, 73, 78, 71, 46, 77, 68>> } THEN TRUE
       ELSE IF Lower(filename) = <<100, 111, 99, 107, 101, 114, 102, 105, 108, 101>> THEN TRUE
       ELSE file_ext \in ESSENTIAL_EXTENSIONS

\* read_file_content, lines 172-198, of a file of file_size bytes that can be read
read_file_content(file_full_path, file_size, max_kb, skip_content) ==
    IF skip_content THEN Content("skipped", <<>>)
    ELSE IF file_size = 0 THEN Content("empty", <<>>)
    ELSE IF max_kb > 0 /\ file_size > max_kb * 1024 THEN Content("truncated", file_full_path)
    ELSE Content("text", file_full_path)

\* the names of the scanned tree
J_README_md == <<82, 69, 65, 68, 77, 69, 46, 109, 100>>   \* README.md
J_notes_bin == <<110, 111, 116, 101, 115, 46, 98, 105, 110>>   \* notes.bin
J_scan_project_py == <<115, 99, 97, 110, 95, 112, 114, 111, 106, 101, 99, 116, 46, 112, 121>>   \* scan_project.py
J_src == <<115, 114, 99>>   \* src
J_build == <<98, 117, 105, 108, 100>>   \* build
J_github == <<46, 103, 105, 116, 104, 117, 98>>   \* .github
J_App_java == <<65, 112, 112, 46, 106, 97, 118, 97>>   \* App.java
J_AppTest_java == <<65, 112, 112, 84, 101, 115, 116, 46, 106, 97, 118, 97>>   \* AppTest.java
J_main == <<109, 97, 105, 110>>   \* main
J_big_sql == <<98, 105, 103, 46, 115, 113, 108>>   \* big.sql
J_deep == <<100, 101, 101, 112>>   \* deep
J_x_py == <<120, 46, 112, 121>>   \* x.py
J_out_js == <<111, 117, 116, 46, 106, 115>>   \* out.js
J_ci_yml == <<99, 105, 46, 121, 109, 108>>   \* ci.yml

\* the scanned tree: the directories and the files of each directory, and the
\* size of each file in bytes
J_Root == <<>>
J_Listing ==
    [d \in { J_Root, <<J_src>>, <<J_build>>, <<J_github>>, <<J_src, J_main>>, <<J_src, J_main, J_deep>> } |->
        IF d = J_Root THEN [dirs |-> {J_src, J_build, J_github},
                            files |-> {J_README_md, J_notes_bin, J_scan_project_py}]
        ELSE IF d = <<J_src>> THEN [dirs |-> {J_main}, files |-> {J_App_java, J_AppTest_java}]
        ELSE IF d = <<J_build>> THEN [dirs |-> {}, files |-> {J_out_js}]
        ELSE IF d = <<J_github>> THEN [dirs |-> {}, files |-> {J_ci_yml}]
        ELSE IF d = <<J_src, J_main>> THEN [dirs |-> {J_deep}, files |-> {J_big_sql}]
        ELSE [dirs |-> {}, files |-> {J_x_py}]]

J_Size(file_path) ==
    IF file_path = <<J_src, J_main, J_deep, J_x_py>> THEN 0
    ELSE IF file_path = <<J_src, J_main, J_big_sql>> THEN 2000
    ELSE 10

\* the scanner itself lies in the root of the scanned tree
J_script_full_path == <<J_scan_project_py>>

MaxDepth == 3      \* max_scan_depth is drawn from -1..MaxDepth
MaxKb == 1         \* max_file_size_kb is drawn from 0..MaxKb

\* line 305 with > in place of >=
prune_dirnames_beyond(current_depth, max_scan_depth) == current_depth > max_scan_depth

\* line 305: the subdirectories of this directory are not walked
prune_dirnames(current_depth, max_scan_depth) == current_depth >= max_scan_depth

\* scan_project_to_json up to the loop of line 299: nothing is in the structure
InitJson ==
    /\ IdleScan
    /\ IdleBuilder
    /\ IdleStats
    /\ IdleText
    /\ IdleRead
    /\ j_pc = "walk"
    /\ j_args \in [max_scan_depth : (0 - 1)..MaxDepth, max_file_size_kb : 0..MaxKb]
    /\ j_stack = <<J_Root>>
    /\ j_yielded = {}
    /\ j_dir = J_Root
    /\ j_filenames = <<>>
    /\ j_structure = EmptyDict
    /\ j_added = <<>>

\* lines 299-312: os.walk yields the next directory; its subdirectories are
\* dropped at the depth limit, and otherwise those that are skipped; beyond the
\* limit its files are not visited (line 308)
JsonEnterDir ==
    /\ j_pc = "walk"
    /\ j_filenames = <<>>
    /\ j_stack # <<>>
    /\ LET current_dir_path == Head(j_stack)
           current_depth == Len(current_dir_path)
           dirnames == IF prune_dirnames(current_depth, j_args.max_scan_depth) THEN {}
                       ELSE { d \in J_Listing[current_dir_path].dirs : ~is_skipped_dir_json(d) }
           filenames == IF /\ prune_dirnames(current_depth, j_args.max_scan_depth)
                           /\ current_depth > j_args.max_scan_depth
                        THEN {}
                        ELSE J_Listing[current_dir_path].files
       IN /\ j_dir' = current_dir_path
          /\ j_yielded' = j_yielded \cup {current_dir_path}
          /\ \E ds \in Orders(dirnames) :
                j_stack' = [i \in DOMAIN ds |-> current_dir_path \o <<ds[i]>>] \o Tail(j_stack)
          /\ j_filenames' \in Orders(filenames)
    /\ UNCHANGED <<j_pc, j_args, j_structure, j_added, scan_vars, build_vars, text_vars, read_vars, stats_vars>>

\* lines 314-328: one filename of the directory
JsonVisitFile ==
    /\ j_pc = "walk"
    /\ j_filenames # <<>>
    /\ LET file_path == j_dir \o <<Head(j_filenames)>>
           should_skip_content == is_test_file_json(file_path)
           content == read_file_content(file_path, J_Size(file_path),
                                        j_args.max_file_size_kb, should_skip_content)
       IN IF ~is_essential_file(file_path, J_script_full_path)
          THEN UNCHANGED <<j_structure, j_added>>
          ELSE /\ j_structure' = add_to_nested_dict(j_structure, file_path, content)
               /\ j_added' = Append(j_added, [path_parts |-> file_path, content |-> content])
    /\ j_filenames' = Tail(j_filenames)
    /\ UNCHANGED <<j_pc, j_args, j_stack, j_yielded, j_dir, scan_vars, build_vars, text_vars, read_vars, stats_vars>>

\* lines 330-336: the walk is over and the document is written, or the write fails
JsonDump ==
    /\ j_pc = "walk"
    /\ j_filenames = <<>>
    /\ j_stack = <<>>
    /\ j_pc' \in {"written", "write_error"}
    /\ UNCHANGED <<j_args, j_stack, j_yielded, j_dir, j_filenames, j_structure, j_added,
                   scan_vars, build_vars, text_vars, read_vars, stats_vars>>

NextJson == JsonEnterDir \/ JsonVisitFile \/ JsonDump

SpecJson == InitJson /\ [][NextJson]_vars

\* the paths of the files of a nested dict
RECURSIVE FilePaths(_)
FilePaths(nested_dict) ==
    UNION { IF nested_dict[k].kind = "dict"
            THEN { <<k>> \o p : p \in FilePaths(nested_dict[k].items) }
            ELSE { <<k>> } : k \in DOMAIN nested_dict }

\* how many levels below the root the directory of a file is
DirDepth(file_path) == Len(file_path) - 1

\* the walk is over
JsonWalked == j_pc \in {"written", "write_error"}

\* C28: with max_scan_depth = d the structure holds no file of a directory
\* more than d levels below the root; os.walk is never given a directory
\* below one at depth d or more; and with d = 0 only files directly in the
\* root are in the structure, all the essential ones once the walk is over.
C28_DepthLimit ==
    /\ \A p \in FilePaths(j_structure) : DirDepth(p) <= j_args.max_scan_depth
    /\ \A i \in DOMAIN j_added : DirDepth(j_added[i].path_parts) <= j_args.max_scan_depth
    /\ \A d \in j_yielded \cup { j_stack[i] : i \in DOMAIN j_stack } :
          d # J_Root => Len(d) <= j_args.max_scan_depth
    /\ j_args.max_scan_depth = 0 =>
          /\ \A p \in FilePaths(j_structure) : Len(p) = 1 /\ p[1] \in J_Listing[J_Root].files
          /\ JsonWalked => FilePaths(j_structure) = { <<J_README_md>> }

\* a walk with max_scan_depth = 1 is over: src was walked and its files are
\* in the structure, src/main was not walked and its file is not
C28_Witness ==
    /\ JsonWalked
    /\ j_args.max_scan_depth = 1
    /\ <<J_src>> \in j_yielded
    /\ <<J_src, J_main>> \notin j_yielded
    /\ FilePaths(j_structure) =
          { <<J_README_md>>, <<J_src, J_App_java>>, <<J_src, J_AppTest_java>>, <<J_github, J_ci_yml>> }
    /\ Follow(j_structure, <<J_src, J_AppTest_java>>) = StrValue(Content("skipped", <<>>))

-----------------------------------------------------------------------------
(* The filtered scanner: src/scan_project_claudeToJsonWithDesiredContent.py. *)
(* Names and strings are sequences of code points; a path is the sequence of *)
(* its parts below the root, and a text is known by its length.              *)

\* lines 37-43
SKIP_DIRS_stats ==
    { <<46, 103, 105, 116>>,   \* .git
      <<46, 115, 118, 110>>,   \* .svn
      <<46, 104, 103>>,   \* .hg
      <<46, 105, 100, 101, 97>>,   \* .idea
      <<46, 118, 115, 99, 111, 100, 101>>,   \* .vscode
      <<46, 118, 115>>,   \* .vs
      <<116, 97, 114, 103, 101, 116>>,   \* target
      <<98, 117, 105, 108, 100>>,   \* build
      <<100, 105, 115, 116>>,   \* dist
      <<111, 117, 116>>,   \* out
      <<98, 105, 110>>,   \* bin
      <<111, 98, 106>>,   \* obj
      <<114, 101, 108, 101, 97, 115, 101>>,   \* release
      <<99, 111, 118, 101, 114, 97, 103, 101>>,   \* coverage
      <<110, 111, 100, 101, 95, 109, 111, 100, 117, 108, 101, 115>>,   \* node_modules
      <<118, 101, 110, 100, 111, 114>>,   \* vendor
      <<98, 111, 119, 101, 114, 95, 99, 111, 109, 112, 111, 110, 101, 110, 116, 115>>,   \* bower_components
      <<46, 109, 50>>,   \* .m2
      <<118, 101, 110, 118>>,   \* venv
      <<46, 118, 101, 110, 118>>,   \* .venv
      <<101, 110, 118>>,   \* env
      <<46, 101, 110, 118>>,   \* .env
      <<69, 78, 86>>,   \* ENV
      <<95, 95, 112, 121, 99, 97, 99, 104, 101, 95, 95>>,   \* __pycache__
      <<46, 112, 121, 116, 101, 115, 116, 95, 99, 97, 99, 104, 101>>,   \* .pytest_cache
      <<46, 109, 121, 112, 121, 95, 99, 97, 99, 104, 101>>,   \* .mypy_cache
      <<46, 116, 111, 120>>,   \* .tox
      <<108, 111, 103, 115>>,   \* logs
      <<116, 101, 109, 112>>,   \* temp
      <<116, 109, 112>>,   \* tmp
      <<46, 68, 83, 95, 83, 116, 111, 114, 101>>,   \* .DS_Store
      <<84, 104, 117, 109, 98, 115, 46, 100, 98>> }   \* Thumbs.db

\* lines 46-49
DEFAULT_INCLUDE_EXTS ==
    { <<46, 106, 97, 118, 97>>,   \* .java
      <<46, 116, 115>>,   \* .ts
      <<46, 106, 115>>,   \* .js
      <<46, 104, 116, 109, 108>>,   \* .html
      <<46, 99, 115, 115>>,   \* .css
      <<46, 115, 99, 115, 115>>,   \* .scss
      <<46, 112, 114, 111, 112, 101, 114, 116, 105, 101, 115>>,   \* .properties
      <<46, 103, 114, 97, 100, 108, 101>>,   \* .gradle
      <<46, 103, 105, 116, 105, 103, 110, 111, 114, 101>> }   \* .gitignore

\* lines 51-54
INCLUDE_FILENAMES ==
    { <<68, 111, 99, 107, 101, 114, 102, 105, 108, 101>>,   \* Dockerfile
      <<100, 111, 99, 107, 101, 114, 45, 99, 111, 109, 112, 111, 115, 101, 46, 121, 109, 108>>,   \* docker-compose.yml
      <<100, 111, 99, 107, 101, 114, 45, 99, 111, 109, 112, 111, 115, 101, 46, 121, 97, 109, 108>>,   \* docker-compose.yaml
      <<98, 117, 105, 108, 100, 46, 103, 114, 97, 100, 108, 101>>,   \* build.gradle
      <<97, 112, 112, 108, 105, 99, 97, 116, 105, 111, 110, 46, 112, 114, 111, 112, 101, 114, 116, 105, 101, 115>>,   \* application.properties
      <<46, 103, 105, 116, 105, 103, 110, 111, 114, 101>> }   \* .gitignore

\* lines 56-58
FRONTEND_DIR_KEYWORDS ==
    { <<102, 114, 111, 110, 116, 101, 110, 100>>,   \* frontend
      <<102, 114, 111, 110, 116, 45, 101, 110, 100>>,   \* front-end
      <<119, 101, 98>>,   \* web
      <<119, 101, 98, 97, 112, 112>>,   \* webapp
      <<112, 117, 98, 108, 105, 99>>,   \* public
      <<99, 108, 105, 101, 110, 116>>,   \* client
      <<117, 105>>,   \* ui
      <<97, 112, 112>>,   \* app
      <<115, 116, 97, 116, 105, 99>>,   \* static
      <<116, 101, 109, 112, 108, 97, 116, 101, 115>> }   \* templates

\* lines 60-66
TEST_SUFFIXES_stats ==
    { <<84, 101, 115, 116, 46, 106, 97, 118, 97>>,   \* Test.java
      <<84, 101, 115, 116, 115, 46, 106, 97, 118, 97>>,   \* Tests.java
      <<73, 84, 46, 106, 97, 118, 97>>,   \* IT.java
      <<83, 112, 101, 99, 46, 106, 97, 118, 97>>,   \* Spec.java
      <<84, 101, 115, 116, 46, 107, 116>>,   \* Test.kt
      <<84, 101, 115, 116, 115, 46, 107, 116>>,   \* Tests.kt
      <<46, 116, 101, 115, 116, 46, 106, 115>>,   \* .test.js
      <<46, 115, 112, 101, 99, 46, 106, 115>>,   \* .spec.js
      <<46, 116, 101, 115, 116, 46, 106, 115, 120>>,   \* .test.jsx
      <<46, 116, 101, 115, 116, 46, 116, 115>>,   \* .test.ts
      <<46, 115, 112, 101, 99, 46, 116, 115>>,   \* .spec.ts
      <<46, 116, 101, 115, 116, 46, 116, 115, 120>>,   \* .test.tsx
      <<84, 101, 115, 116, 115, 46, 99, 115>> }   \* Tests.cs

LLM_INSTRUCTIONS_LEN == 753    \* len(LLM_INSTRUCTIONS)
DEFAULT_SUMMARY_LEN == 307     \* len(DEFAULT_SUMMARY)

SLASH == 47     \* '/'
COMMA == 44     \* ','
SPACE == 32     \* ' '

\* str(path) of the parts of a relative path; '.' for the root
RECURSIVE PathStr(_)
PathStr(parts) ==
    IF parts = <<>> THEN <<DOT>>
    ELSE IF Len(parts) = 1 THEN parts[1]
    ELSE parts[1] \o <<SLASH>> \o PathStr(Tail(parts))

\* str.split(',')
RECURSIVE SplitComma(_)
SplitComma(string) ==
    IF \A i \in DOMAIN string : string[i] # COMMA THEN <<string>>
    ELSE LET at == CHOOSE i \in DOMAIN string :
                      string[i] = COMMA /\ \A k \in 1..(i - 1) : string[k] # COMMA
         IN <<SubSeq(string, 1, at - 1)>> \o SplitComma(SubSeq(string, at + 1, Len(string)))

\* str.strip of spaces
RECURSIVE Strip(_)
Strip(string) ==
    IF string = <<>> THEN <<>>
    ELSE IF string[1] = SPACE THEN Strip(Tail(string))
    ELSE IF string[Len(string)] = SPACE THEN Strip(SubSeq(string, 1, Len(string) - 1))
    ELSE string

\* is_skipped_dir, lines 84-85
is_skipped_dir_stats(d) ==
    \/ d \in SKIP_DIRS_stats
    \/ StartsWith(d, <<DOT>>) /\ d \notin { <<46, 103, 105, 116, 104, 117, 98>>, <<46, 103, 105, 116, 108, 97, 98, 45, 99, 105>> }

\* is_test_file, lines 87-92
is_test_file_stats(p) ==
    LET name == p[Len(p)]
        lowered == { Lower(p[i]) : i \in DOMAIN p }
    IN IF \E suf \in TEST_SUFFIXES_stats : EndsWith(name, suf) THEN TRUE
       ELSE <<116, 101, 115, 116>> \in lowered \/ <<116, 101, 115, 116, 115>> \in lowered

\* is_frontend_html, lines 94-99
is_frontend_html(p) ==
    /\ Lower(Suffix(p[Len(p)])) = <<46, 104, 116, 109, 108>>
    /\ ~is_test_file_stats(p)
    /\ \E k \in FRONTEND_DIR_KEYWORDS : \E i \in DOMAIN p : Lower(p[i]) = k

\* wants_content, lines 101-140; a scan_area or module that is None or '' is <<>>
wants_content(p, include_exts, include_only_module, scan_area) ==
    LET path_str == PathStr(p)
        module_path == IF scan_area # <<>> /\ Lower(scan_area) = <<102, 114, 111, 110, 116, 101, 110, 100>>
                       THEN <<102, 114, 111, 110, 116, 101, 110, 100, 47>> \o include_only_module \o <<SLASH>>
                       ELSE <<98, 97, 99, 107, 101, 110, 100, 47>> \o include_only_module \o <<SLASH>>
    IN IF Lower(Suffix(p[Len(p)])) = <<46, 112, 121>> THEN FALSE
       ELSE IF /\ scan_area # <<>>
               /\ \/ Lower(scan_area) = <<102, 114, 111, 110, 116, 101, 110, 100>> /\ ~StartsWith(path_str, <<102, 114, 111, 110, 116, 101, 110, 100, 47>>)
                  \/ /\ Lower(scan_area) # <<102, 114, 111, 110, 116, 101, 110, 100>>
                     /\ Lower(scan_area) = <<98, 97, 99, 107, 101, 110, 100>>
                     /\ ~StartsWith(path_str, <<98, 97, 99, 107, 101, 110, 100, 47>>)
            THEN FALSE
       ELSE IF include_only_module # <<>> /\ ~Contains(path_str, module_path) THEN FALSE
       ELSE \/ p[Len(p)] \in INCLUDE_FILENAMES
            \/ Lower(Suffix(p[Len(p)])) \in include_exts
            \/ is_frontend_html(p)

\* estimate_tokens, lines 166-173, of a text of text_len characters
estimate_tokens(text_len) == IF text_len = 0 THEN 0 ELSE text_len \div 4

\* get_module_name, lines 175-190, of the parts of file_path.split('/')
get_module_name(parts) ==
    IF Len(parts) >= 2 /\ (parts[1] = <<98, 97, 99, 107, 101, 110, 100>> \/ parts[1] = <<102, 114, 111, 110, 116, 101, 110, 100>>)
    THEN parts[2]
    ELSE <<114, 111, 111, 116>>

\* lines 223-228: the extensions that are included
IncludeExts(include_only) ==
    IF include_only = <<>> THEN DEFAULT_INCLUDE_EXTS
    ELSE LET items == SplitComma(include_only)
         IN { (IF StartsWith(Strip(items[i]), <<DOT>>) THEN Strip(items[i])
               ELSE <<DOT>> \o Strip(items[i])) : i \in DOMAIN items }

\* lines 231-233: a scan_area that is neither frontend nor backend is ignored
ValidScanArea(scan_area) ==
    IF scan_area # <<>> /\ Lower(scan_area) \notin { <<102, 114, 111, 110, 116, 101, 110, 100>>, <<98, 97, 99, 107, 101, 110, 100>> }
    THEN <<>>
    ELSE scan_area

\* lines 262-274: the directory is left out by the scan area or the module filter
DirFiltered(dir_str, scan_area, include_only_module) ==
    \/ /\ scan_area # <<>>
       /\ \/ /\ Lower(scan_area) = <<102, 114, 111, 110, 116, 101, 110, 100>>
             /\ ~(dir_str = <<DOT>> \/ StartsWith(dir_str, <<102, 114, 111, 110, 116, 101, 110, 100>>))
          \/ /\ Lower(scan_area) # <<102, 114, 111, 110, 116, 101, 110, 100>>
             /\ Lower(scan_area) = <<98, 97, 99, 107, 101, 110, 100>>
             /\ ~(dir_str = <<DOT>> \/ StartsWith(dir_str, <<98, 97, 99, 107, 101, 110, 100>>))
    \/ /\ include_only_module # <<>>
       /\ LET module_prefix == (IF scan_area # <<>> THEN scan_area ELSE <<98, 97, 99, 107, 101, 110, 100>>)
                                  \o <<SLASH>> \o include_only_module
          IN ~(dir_str = <<DOT>> \/ StartsWith(dir_str, module_prefix))

\* the names of the scanned tree
S_backend == <<98, 97, 99, 107, 101, 110, 100>>   \* backend
S_frontend == <<102, 114, 111, 110, 116, 101, 110, 100>>   \* frontend
S_node_modules == <<110, 111, 100, 101, 95, 109, 111, 100, 117, 108, 101, 115>>   \* node_modules
S_order == <<111, 114, 100, 101, 114>>   \* order
S_app == <<97, 112, 112>>   \* app
S_build_gradle == <<98, 117, 105, 108, 100, 46, 103, 114, 97, 100, 108, 101>>   \* build.gradle
S_tool_py == <<116, 111, 111, 108, 46, 112, 121>>   \* tool.py
S_Order_java == <<79, 114, 100, 101, 114, 46, 106, 97, 118, 97>>   \* Order.java
S_OrderTest_java == <<79, 114, 100, 101, 114, 84, 101, 115, 116, 46, 106, 97, 118, 97>>   \* OrderTest.java
S_Pay_java == <<80, 97, 121, 46, 106, 97, 118, 97>>   \* Pay.java
S_index_html == <<105, 110, 100, 101, 120, 46, 104, 116, 109, 108>>   \* index.html
S_main_ts == <<109, 97, 105, 110, 46, 116, 115>>   \* main.ts
S_x_js == <<120, 46, 106, 115>>   \* x.js

\* the scanned tree
S_Root == <<>>
S_Listing ==
    [d \in { S_Root, <<S_backend>>, <<S_backend, S_order>>, <<S_frontend>>,
             <<S_frontend, S_app>>, <<S_node_modules>> } |->
        IF d = S_Root THEN [dirs |-> {S_backend, S_frontend, S_node_modules},
                            files |-> {S_build_gradle, S_tool_py}]
        ELSE IF d = <<S_backend>> THEN [dirs |-> {S_order}, files |-> {}]
        ELSE IF d = <<S_backend, S_order>>
             THEN [dirs |-> {}, files |-> {S_Order_java, S_OrderTest_java, S_Pay_java}]
        ELSE IF d = <<S_frontend>> THEN [dirs |-> {S_app}, files |-> {}]
        ELSE IF d = <<S_frontend, S_app>> THEN [dirs |-> {}, files |-> {S_index_html, S_main_ts}]
        ELSE [dirs |-> {}, files |-> {S_x_js}]]

MaxChars == 9      \* characters of the longest file that is read

\* the lengths read_file can return for a file, and of the summary of the README
ContentLens == {0, MaxChars}
SummaryLens == {MaxChars, DEFAULT_SUMMARY_LEN}

\* the arguments of scan_project
StatsArgs ==
    [include_only : { <<>>, <<116, 115, 44, 32, 46, 106, 97, 118, 97>> },
     include_only_module : { <<>>, S_order },
     include_only_file_names_in_path : BOOLEAN,
     scan_area : { <<>>, S_frontend, S_backend, <<119, 101, 98>> },
     include_tests : BOOLEAN]

\* lines 314-319 with module_token_counts[module_name] = content_tokens
AddTokensAssigning(counters, module_name, content_size, content_tokens) ==
    [counters EXCEPT !.total_content_size = @ + content_size,
                     !.total_tokens = @ + content_tokens,
                     !.module_token_counts = Put(@, module_name, content_tokens)]

\* lines 314-319: the sizes of one file that is read are added to the counters;
\* module_token_counts is a defaultdict(int)
AddTokens(counters, module_name, content_size, content_tokens) ==
    [counters EXCEPT !.total_content_size = @ + content_size,
                     !.total_tokens = @ + content_tokens,
                     !.module_token_counts =
                         Put(@, module_name,
                             (IF module_name \in DOMAIN @ THEN @[module_name] ELSE 0) + content_tokens)]

\* lines 391-401: the statistics that are returned
Statistics(counters, scan_config) ==
    [total_files |-> counters.total_files,
     included_files |-> counters.included_files,
     total_content_size |-> counters.total_content_size,
     total_tokens |-> counters.total_tokens,
     summary_tokens |-> counters.summary_tokens,
     code_tokens |-> counters.total_tokens - counters.summary_tokens - counters.llm_instructions_tokens,
     llm_instructions_tokens |-> counters.llm_instructions_tokens,
     module_token_counts |-> counters.module_token_counts,
     scan_config |-> scan_config]

NotReturned == [total_files |-> 0 - 1]

\* scan_project up to the loop of line 258
InitStats ==
    /\ IdleScan
    /\ IdleBuilder
    /\ IdleText
    /\ IdleRead
    /\ IdleJson
    /\ s_pc = "walk"
    /\ \E args \in StatsArgs :
          s_config = [include_exts |-> IncludeExts(args.include_only),
                      include_only_module |-> args.include_only_module,
                      include_only_file_names_in_path |-> args.include_only_file_names_in_path,
                      scan_area |-> ValidScanArea(args.scan_area),
                      include_tests |-> args.include_tests]
    /\ \E summary_len \in SummaryLens :
          s_counters = [total_files |-> 0,
                        included_files |-> 0,
                        total_content_size |-> 0,
                        total_tokens |-> estimate_tokens(summary_len)
                                            + estimate_tokens(LLM_INSTRUCTIONS_LEN),
                        summary_tokens |-> estimate_tokens(summary_len),
                        llm_instructions_tokens |-> estimate_tokens(LLM_INSTRUCTIONS_LEN),
                        module_token_counts |-> EmptyDict]
    /\ s_stack = <<S_Root>>
    /\ s_dir = S_Root
    /\ s_filenames = <<>>
    /\ s_doc = [all_directories |-> <<>>, all_files |-> <<>>, dir_files |-> <<>>,
                files_by_directory |-> EmptyDict]
    /\ s_returned = NotReturned

\* lines 258-279: os.walk yields the next directory; a directory the filters
\* leave out is not listed and its files are not visited
StatsEnterDir ==
    /\ s_pc = "walk"
    /\ s_filenames = <<>>
    /\ s_stack # <<>>
    /\ LET dirpath == Head(s_stack)
           dirnames == { d \in S_Listing[dirpath].dirs : ~is_skipped_dir_stats(d) }
           dir_str == PathStr(dirpath)
           filtered == DirFiltered(dir_str, s_config.scan_area, s_config.include_only_module)
       IN /\ \E ds \in Orders(dirnames) :
                s_stack' = [i \in DOMAIN ds |-> dirpath \o <<ds[i]>>] \o Tail(s_stack)
          /\ IF filtered
             THEN UNCHANGED <<s_dir, s_filenames, s_doc>>
             ELSE /\ s_dir' = dirpath
                  /\ s_filenames' = Sorted(S_Listing[dirpath].files) \o << <<>> >>
                  /\ s_doc' = [s_doc EXCEPT !.all_directories = Append(@, dir_str),
                                            !.dir_files = <<>>]
    /\ UNCHANGED <<s_pc, s_config, s_counters, s_returned,
                   scan_vars, build_vars, text_vars, read_vars, json_vars>>

\* lines 281-324: one filename of the sorted filenames of the directory
StatsVisitFile ==
    /\ s_pc = "walk"
    /\ Len(s_filenames) > 1
    /\ LET fname == Head(s_filenames)
           rel == s_dir \o <<fname>>
           path_str == PathStr(rel)
           type == IF Suffix(fname) # <<>> THEN Tail(Suffix(fname)) ELSE <<117, 110, 107, 110, 111, 119, 110>>
       IN IF ~s_config.include_tests /\ is_test_file_stats(rel)
          THEN UNCHANGED <<s_counters, s_doc>>
          ELSE IF ~wants_content(rel, s_config.include_exts, s_config.include_only_module,
                                 s_config.scan_area)
          THEN /\ s_counters' = [s_counters EXCEPT !.total_files = @ + 1]
               /\ UNCHANGED s_doc
          ELSE IF s_config.include_only_file_names_in_path
          THEN /\ s_counters' = [s_counters EXCEPT !.total_files = @ + 1,
                                                   !.included_files = @ + 1]
               /\ s_doc' = [s_doc EXCEPT
                              !.dir_files = Append(@, fname),
                              !.all_files = Append(@, [path |-> path_str, type |-> type,
                                                       content |-> 0 - 1])]
          ELSE \E content_size \in ContentLens :
                  /\ s_counters' = AddTokens([s_counters EXCEPT !.total_files = @ + 1,
                                                                !.included_files = @ + 1],
                                             get_module_name(rel), content_size,
                                             estimate_tokens(content_size))
                  /\ s_doc' = [s_doc EXCEPT
                                 !.all_files = Append(@, [path |-> path_str, type |-> type,
                                                          content |-> content_size])]
    /\ s_filenames' = Tail(s_filenames)
    /\ UNCHANGED <<s_pc, s_config, s_stack, s_dir, s_returned,
                   scan_vars, build_vars, text_vars, read_vars, json_vars>>

\* lines 326-331: the filenames of the directory are over
StatsLeaveDir ==
    /\ s_pc = "walk"
    /\ s_filenames = << <<>> >>
    /\ s_filenames' = <<>>
    /\ s_doc' = IF s_config.include_only_file_names_in_path
                THEN [s_doc EXCEPT !.files_by_directory =
                        Put(@, PathStr(s_dir),
                            IF s_doc.dir_files # <<>> THEN s_doc.dir_files
                            ELSE << <<110, 111, 102, 105, 108, 101, 101, 120, 105, 115, 116>> >>)]
                ELSE s_doc
    /\ UNCHANGED <<s_pc, s_config, s_stack, s_dir, s_counters, s_returned,
                   scan_vars, build_vars, text_vars, read_vars, json_vars>>

\* lines 333-401: the walk is over; the outputs are written and the statistics
\* returned, or writing an output raises and nothing is returned
StatsReturn ==
    /\ s_pc = "walk"
    /\ s_filenames = <<>>
    /\ s_stack = <<>>
    /\ \/ /\ s_pc' = "returned"
          /\ s_returned' = Statistics(s_counters, s_config)
       \/ /\ s_pc' = "raised"
          /\ UNCHANGED s_returned
    /\ UNCHANGED <<s_config, s_stack, s_dir, s_filenames, s_counters, s_doc,
                   scan_vars, build_vars, text_vars, read_vars, json_vars>>

NextStats == StatsEnterDir \/ StatsVisitFile \/ StatsLeaveDir \/ StatsReturn

SpecStats == InitStats /\ [][NextStats]_vars

\* the sum of the values of a dict of numbers
RECURSIVE SumOf(_)
SumOf(counts) ==
    IF DOMAIN counts = {} THEN 0
    ELSE LET k == CHOOSE x \in DOMAIN counts : TRUE
         IN counts[k] + SumOf([x \in DOMAIN counts \ {k} |-> counts[x]])

\* what the claim says of a dict of statistics
SoundStatistics(stats, names_only) ==
    /\ stats.included_files <= stats.total_files
    /\ stats.total_tokens = stats.summary_tokens + stats.llm_instructions_tokens + stats.code_tokens
    /\ stats.code_tokens = SumOf(stats.module_token_counts)
    /\ names_only => stats.code_tokens = 0

\* C29: after any sequence of visited files the statistics the filtered
\* scanner would return, and those it returns, have included_files <=
\* total_files, total_tokens = summary_tokens + llm_instructions_tokens +
\* code_tokens, and code_tokens equal to the sum of the per-module token
\* counts, which is 0 when only file names are included.
C29_StatisticsAddUp ==
    /\ SoundStatistics(Statistics(s_counters, s_config), s_config.include_only_file_names_in_path)
    /\ s_pc = "returned" =>
          /\ s_returned = Statistics(s_counters, s_config)
          /\ SoundStatistics(s_returned, s_config.include_only_file_names_in_path)

\* statistics were returned after two files of the module order were read
\* with text in them, next to a file that was not included
C29_Witness ==
    /\ s_pc = "returned"
    /\ ~s_config.include_only_file_names_in_path
    /\ s_returned.included_files < s_returned.total_files
    /\ S_order \in DOMAIN s_returned.module_token_counts
    /\ s_returned.module_token_counts[S_order] = 2 * estimate_tokens(MaxChars)
    /\ Cardinality(DOMAIN s_returned.module_token_counts) >= 2
    /\ s_returned.code_tokens > s_returned.module_token_counts[S_order]

====
